---- MODULE Spec2Model ----
(***************************************************************************)
(* Webhook delivery engine of opencat-server                               *)
(* (crates/server/src/webhooks/delivery.rs).                               *)
(*                                                                         *)
(* The store holds the webhook_endpoints and webhook_deliveries tables.    *)
(* One WebhookDeliveryWorker runs the loop of `run`: a polling cycle       *)
(* (`process_pending`) reads the clock, selects a batch of eligible rows,  *)
(* and then, row by row, POSTs the event and writes the outcome back.      *)
(* Every store call and every POST is one step; the clock may advance      *)
(* between any two steps.  Time is counted in seconds.                     *)
(***************************************************************************)
EXTENDS Integers, Sequences, FiniteSets, TLC

(* ---------------------------------------------------------------- bounds *)
\* Number of webhook_deliveries rows in the store.
NumDeliveries == 2
\* Number of webhook_endpoints rows in the store.
NumEndpoints == 2
\* Number of row updates that may return an error.
MaxDbErrors == 1

(* ------------------------------------------------------ program constants *)
\* LIMIT of the selection query.
BatchLimit == 10
\* attempts >= 10 dead-letters the row.
MaxAttempts == 10
\* let delays = [1, 5, 30, 120, 600, 3600];
delays == <<1, 5, 30, 120, 600, 3600>>

\* SQL NULL in a timestamp column / in the last_error column.
Null == -1
NoError == "null"

DeliveryIds == 1..NumDeliveries
EndpointIds == 1..NumEndpoints

\* Outcome of one POST: a 2xx response, another response, a transport error
\* (connection failure or the 10 s timeout).
Results == {"2xx", "non2xx", "transport"}

\* What the receiver behind an endpoint url answers to a POST: a receiver that
\* is up answers 2xx, the others may answer anything.
Responses(url) == IF url = "https://up" THEN {"2xx"} ELSE Results

Min(a, b) == IF a <= b THEN a ELSE b

VARIABLES
    deliveries,  \* webhook_deliveries: id -> row
    endpoints,   \* webhook_endpoints: id -> row
    clock,       \* chrono::Utc::now(), in seconds
    pc,          \* position of the worker in run/process_pending
    batch,       \* rows of `deliveries` (the query result) not yet iterated
    cur,         \* the row of the loop body between the POST and its update
    posts,       \* history: POSTs sent per delivery row
    lost         \* history: POSTs per row whose row update returned an error

vars == <<deliveries, endpoints, clock, pc, batch, cur, posts, lost>>

\* The rest of the server: the store tables written by the HTTP handlers and
\* the store adapters. The delivery engine neither reads nor writes them.
VARIABLES
    subscribers, \* subscribers: the rows
    events,      \* events: the rows, in insertion order
    accepted,    \* vendor notifications answered 200 so far
    call,        \* the request or store adapter call last made
    ret          \* what that call returned

VARIABLES
    transactions, \* transactions: the rows, in insertion order
    inflight,     \* the requests being served: where each handler stands
    outbound,     \* the requests sent to the vendor by the call being served
    worker2,      \* a second delivery worker on the same store
    credentials,  \* apps.store_credentials_encrypted of one app, in two stores
    product_entitlements \* product_entitlements: the rows

restVars ==
    <<transactions, inflight, outbound, worker2, credentials, product_entitlements>>

apiVars == <<subscribers, events, accepted, call, ret, restVars>>

NoCall == [op |-> "none"]

NoCur == [id |-> 0, attempts |-> 0, result |-> "none", now |-> Null]

\* No request is being served, no second worker runs, no credentials are set.
RestIdle ==
    /\ transactions = <<>>
    /\ inflight = <<>>
    /\ outbound = <<>>
    /\ worker2 = [pc |-> "off", batch |-> {}, cur |-> NoCur]
    /\ credentials = <<>>
    /\ product_entitlements = {}

ApiIdle ==
    /\ subscribers = {}
    /\ events = <<>>
    /\ accepted = 0
    /\ call = NoCall
    /\ ret = NoCall
    /\ RestIdle

\* A webhook_endpoints row.
Endpoint(url, active) == [url |-> url, active |-> active]

\* fn next_retry_delay(attempts: i32) -> Duration
next_retry_delay(attempts) ==
    LET index == Min(attempts, Len(delays) - 1)   \* 0-based index
    IN  delays[index + 1]

\* mark_failed with `attempts > 10` for `attempts >= 10`.
mark_failed_gt(d, error, attempts, now, utcnow) ==
    LET status == IF attempts > MaxAttempts THEN "dead_letter" ELSE "failed"
        next_retry == IF status = "failed"
                      THEN utcnow + next_retry_delay(attempts)
                      ELSE Null
    IN  [d EXCEPT !.status = status,
                  !.attempts = attempts,
                  !.last_attempt_at = now,
                  !.last_error = error,
                  !.next_retry_at = next_retry]

\* mark_failed dead-lettering one attempt early.
mark_failed_early(d, error, attempts, now, utcnow) ==
    LET status == IF attempts >= MaxAttempts - 1 THEN "dead_letter" ELSE "failed"
        next_retry == IF status = "failed"
                      THEN utcnow + next_retry_delay(attempts)
                      ELSE Null
    IN  [d EXCEPT !.status = status,
                  !.attempts = attempts,
                  !.last_attempt_at = now,
                  !.last_error = error,
                  !.next_retry_at = next_retry]

\* The row written by mark_failed(delivery_id, error, attempts, now); utcnow is
\* the clock read inside mark_failed.
mark_failed(d, error, attempts, now, utcnow) ==
    LET status == IF attempts >= MaxAttempts THEN "dead_letter" ELSE "failed"
        next_retry == IF status = "failed"
                      THEN utcnow + next_retry_delay(attempts)
                      ELSE Null
    IN  [d EXCEPT !.status = status,
                  !.attempts = attempts,
                  !.last_attempt_at = now,
                  !.last_error = error,
                  !.next_retry_at = next_retry]

\* The success update without its attempts column.
mark_delivered_no_attempts(d, attempts, now) ==
    [d EXCEPT !.status = "delivered",
              !.last_attempt_at = now]

\* UPDATE webhook_deliveries SET status = 'delivered', last_attempt_at = ?,
\* attempts = ? WHERE id = ?
mark_delivered(d, attempts, now) ==
    [d EXCEPT !.status = "delivered",
              !.last_attempt_at = now,
              !.attempts = attempts]

\* The WHERE clause without the status condition.
Eligible_any_status(id, now) ==
    LET d == deliveries[id]
    IN  /\ (d.next_retry_at = Null \/ d.next_retry_at <= now)
        /\ endpoints[d.webhook_endpoint_id].active

\* The WHERE clause with status = 'pending' for status IN ('pending', 'failed').
Eligible_pending_only(id, now) ==
    LET d == deliveries[id]
    IN  /\ d.status = "pending"
        /\ (d.next_retry_at = Null \/ d.next_retry_at <= now)
        /\ endpoints[d.webhook_endpoint_id].active

\* The WHERE clause without the next_retry_at condition.
Eligible_any_time(id, now) ==
    LET d == deliveries[id]
    IN  /\ d.status \in {"pending", "failed"}
        /\ endpoints[d.webhook_endpoint_id].active

\* The WHERE clause without the join condition we.active = 1.
Eligible_any_endpoint(id, now) ==
    LET d == deliveries[id]
    IN  /\ d.status \in {"pending", "failed"}
        /\ (d.next_retry_at = Null \/ d.next_retry_at <= now)

\* The WHERE clause of the selection query, for row id at instant now.
Eligible(id, now) ==
    LET d == deliveries[id]
    IN  /\ d.status \in {"pending", "failed"}
        /\ (d.next_retry_at = Null \/ d.next_retry_at <= now)
        /\ endpoints[d.webhook_endpoint_id].active

EligibleIds(now) == {id \in DOMAIN deliveries : Eligible(id, now)}

\* A freshly inserted delivery row.
NewDelivery(e) ==
    [webhook_endpoint_id |-> e, status |-> "pending", attempts |-> 0,
     last_attempt_at |-> Null, last_error |-> NoError, next_retry_at |-> Null]

\* The deliveries of one event: one row per endpoint, round robin when there
\* are more rows than endpoints.
EndpointOf(id) == ((id - 1) % NumEndpoints) + 1

RECURSIVE SumOver(_, _)
SumOver(f, S) ==
    IF S = {} THEN 0
    ELSE LET x == CHOOSE y \in S : TRUE IN f[x] + SumOver(f, S \ {x})

\* Row updates that have failed so far.
DbErrors == SumOver(lost, DOMAIN lost)

Init ==
    /\ deliveries = [id \in DeliveryIds |-> NewDelivery(EndpointOf(id))]
    /\ endpoints \in [EndpointIds -> {Endpoint("https://any", a) : a \in BOOLEAN}]
    /\ clock = 0
    /\ pc = "sleep"
    /\ batch = {}
    /\ cur = NoCur
    /\ posts = [id \in DeliveryIds |-> 0]
    /\ lost = [id \in DeliveryIds |-> 0]
    /\ ApiIdle

\* process_pending, lines 27-41: read the clock and run the selection query.
\* The query has no ORDER BY: any LIMIT-sized subset of the eligible rows.
SelectBatch ==
    /\ pc = "sleep"
    /\ \E B \in SUBSET EligibleIds(clock) :
          /\ Cardinality(B) = Min(BatchLimit, Cardinality(EligibleIds(clock)))
          /\ batch' = {[id |-> id,
                         url |-> endpoints[deliveries[id].webhook_endpoint_id].url,
                         attempts |-> deliveries[id].attempts] : id \in B}
          /\ pc' = IF B = {} THEN "sleep" ELSE "loop"
    /\ UNCHANGED <<deliveries, endpoints, clock, cur, posts, lost>>
    /\ UNCHANGED apiVars

\* process_pending, line 41: the selection query returns an error; run logs it
\* and sleeps.
SelectFails ==
    /\ pc = "sleep"
    /\ UNCHANGED vars
    /\ UNCHANGED apiVars

\* process_pending, lines 43-53: the next row of the batch is POSTed, the
\* response (or error) arrives and the clock is read.
Dispatch ==
    /\ pc = "loop"
    /\ \E b \in batch :
       \E result \in Responses(b.url) :
          /\ batch' = batch \ {b}
          /\ cur' = [id |-> b.id, attempts |-> b.attempts, result |-> result,
                     now |-> clock]
          /\ posts' = [posts EXCEPT ![b.id] = @ + 1]
    /\ pc' = "write"
    /\ UNCHANGED <<deliveries, endpoints, clock, lost>>
    /\ UNCHANGED apiVars

\* process_pending, lines 55-71: the outcome is written to the row.
WriteOutcome ==
    /\ pc = "write"
    /\ deliveries' =
          [deliveries EXCEPT ![cur.id] =
              IF cur.result = "2xx"
              THEN mark_delivered(@, cur.attempts + 1, cur.now)
              ELSE mark_failed(@, IF cur.result = "non2xx" THEN "HTTP" ELSE "transport",
                               cur.attempts + 1, cur.now, clock)]
    /\ cur' = NoCur
    /\ pc' = IF batch = {} THEN "sleep" ELSE "loop"
    /\ UNCHANGED <<endpoints, clock, batch, posts, lost>>
    /\ UNCHANGED apiVars

\* The row update returns an error and run returns with it: the loop ends.
WriteFailsAndExits ==
    /\ pc = "write"
    /\ DbErrors < MaxDbErrors
    /\ lost' = [lost EXCEPT ![cur.id] = @ + 1]
    /\ cur' = NoCur
    /\ batch' = {}
    /\ pc' = "exit"
    /\ UNCHANGED <<deliveries, endpoints, clock, posts>>
    /\ UNCHANGED apiVars

\* process_pending, lines 62/66/69: the row update returns an error; `?` leaves
\* the cycle, the rest of the batch is dropped, run logs the error and sleeps.
WriteFails ==
    /\ pc = "write"
    /\ DbErrors < MaxDbErrors
    /\ lost' = [lost EXCEPT ![cur.id] = @ + 1]
    /\ cur' = NoCur
    /\ batch' = {}
    /\ pc' = "sleep"
    /\ UNCHANGED <<deliveries, endpoints, clock, posts>>
    /\ UNCHANGED apiVars

\* Retry instants still ahead of the clock.
PendingTimers ==
    {deliveries[id].next_retry_at : id \in DOMAIN deliveries} \ (Null..clock)

\* Time passes, from one scheduled retry instant to the next: the instants at
\* which the result of the selection query can change.
Tick ==
    /\ \E t \in PendingTimers :
          /\ \A u \in PendingTimers : t <= u
          /\ clock' = t
    /\ UNCHANGED <<deliveries, endpoints, pc, batch, cur, posts, lost>>
    /\ UNCHANGED apiVars

Next ==
    \/ SelectBatch
    \/ SelectFails
    \/ Dispatch
    \/ WriteOutcome
    \/ WriteFails
    \/ Tick

Spec == Init /\ [][Next]_vars

(* ------------------------------------------------- the engine left to run *)
\* More rows than one selection takes.
LiveDeliveries == BatchLimit + 1
\* POSTs that the oldest row has left before it is dead-lettered.
LiveRetries == 2

\* The instant at which the retry after n failures is due when the first POST
\* is sent at 0 and every retry as soon as it is due.
RECURSIVE RetryDue(_)
RetryDue(n) == IF n = 0 THEN 0 ELSE RetryDue(n - 1) + next_retry_delay(n)

\* A row after n >= 1 failures, each recorded as soon as its retry was due.
FailedDelivery(e, n) ==
    [webhook_endpoint_id |-> e, status |-> "failed", attempts |-> n,
     last_attempt_at |-> RetryDue(n - 1), last_error |-> "HTTP",
     next_retry_at |-> RetryDue(n)]

\* A worker starts on a store that holds one old row, failed so far and due
\* for a retry, and the rows of an event just fanned out: BatchLimit + 1
\* eligible rows. All endpoints are active; the old row's receiver may answer
\* anything, the receiver of the new rows is up.
InitLive ==
    /\ endpoints = [e \in EndpointIds |->
                       Endpoint(IF e = 1 THEN "https://any" ELSE "https://up", TRUE)]
    /\ deliveries = [id \in 1..LiveDeliveries |->
                        IF id = 1 THEN FailedDelivery(1, MaxAttempts - LiveRetries)
                        ELSE NewDelivery(IF NumEndpoints = 1 THEN 1 ELSE 2)]
    /\ clock = RetryDue(MaxAttempts - LiveRetries)
    /\ pc = "sleep"
    /\ batch = {}
    /\ cur = NoCur
    /\ posts = [id \in 1..LiveDeliveries |->
                   IF id = 1 THEN MaxAttempts - LiveRetries ELSE 0]
    /\ lost = [id \in 1..LiveDeliveries |-> 0]
    /\ ApiIdle

\* The steps of the engine when every store call succeeds.
NextLive ==
    \/ SelectBatch
    \/ Dispatch
    \/ WriteOutcome
    \/ Tick

\* run loops for ever and every await of it returns (the POST within its 10 s
\* timeout); time passes.
SpecLive ==
    /\ InitLive
    /\ [][NextLive]_vars
    /\ WF_vars(SelectBatch)
    /\ WF_vars(Dispatch)
    /\ WF_vars(WriteOutcome)
    /\ WF_vars(Tick)

(* ------------------------------------------- the POST and its response *)
\* process_pending, lines 43-51: the loop takes the next row of the batch and
\* sends its POST; the task then waits at `.send().await`.
Send ==
    /\ pc = "loop"
    /\ \E b \in batch :
          /\ batch' = batch \ {b}
          /\ cur' = [id |-> b.id, attempts |-> b.attempts, result |-> "none",
                     now |-> Null, url |-> b.url]
          /\ posts' = [posts EXCEPT ![b.id] = @ + 1]
    /\ pc' = "await"
    /\ UNCHANGED <<deliveries, endpoints, clock, lost>>
    /\ UNCHANGED apiVars

\* process_pending, lines 51-53: the response, the transport error or the
\* 10 s timeout ends the wait, and the clock is read.
Receive ==
    /\ pc = "await"
    /\ \E result \in Responses(cur.url) :
          cur' = [id |-> cur.id, attempts |-> cur.attempts, result |-> result,
                  now |-> clock]
    /\ pc' = "write"
    /\ UNCHANGED <<deliveries, endpoints, clock, batch, posts, lost>>
    /\ UNCHANGED apiVars

\* The engine with the wait for the response as a state of its own: time can
\* pass while a POST is outstanding.
NextCycle ==
    \/ SelectBatch
    \/ Send
    \/ Receive
    \/ WriteOutcome
    \/ Tick

SpecCycle == Init /\ [][NextCycle]_vars

(* ------------------------------------------------------ the HTTP handlers *)
\* App users that submit receipts.
NumUsers == 2
\* Vendor notifications accepted in one behaviour.
MaxNotifications == 3

UserIds == 1..NumUsers
Urls == {"https://up", "https://any"}

\* A request body: bytes that are JSON text or not, and the value they parse to.
\* The value of a vendor notification is kept as the app user whose
\* transaction it refers to (Null: a transaction no receipt was submitted for).
Json(v) == [json |-> TRUE, value |-> v]
NotJson == [json |-> FALSE, value |-> [about |-> Null]]
Notifications == {[about |-> u] : u \in UserIds \cup {Null}}
Bodies == {NotJson} \cup {Json(n) : n \in Notifications}

\* The data field of a Pub/Sub push message: base64 text of a body, or not.
Base64(bytes) == [b64 |-> TRUE, bytes |-> bytes]
NotBase64 == [b64 |-> FALSE, bytes |-> NotJson]
PubSubData == {NotBase64} \cup {Base64(b) : b \in Bodies}

Request(op, input) == [op |-> op, input |-> input]

\* INSERT INTO events ... SELECT ?, s.id, ... FROM subscribers s LIMIT 1: one
\* row for one of the subscriber rows (the query has no WHERE and no ORDER BY),
\* no row when the table is empty.
insert_event(event_type, payload) ==
    IF subscribers = {}
    THEN events' = events
    ELSE \E s \in subscribers :
            events' = Append(events, [id |-> Len(events) + 1,
                                      subscriber_id |-> s.id,
                                      event_type |-> event_type,
                                      payload |-> payload])

\* POST /v1/receipts as far as the subscribers table goes: INSERT OR IGNORE of
\* the row of (app, app user).
submit_receipt ==
    /\ \E u \in UserIds :
          /\ subscribers' =
                IF \E s \in subscribers : s.app_user_id = u
                THEN subscribers
                ELSE subscribers \cup
                        {[id |-> Cardinality(subscribers) + 1, app_user_id |-> u]}
          /\ call' = Request("submit_receipt", u)
    /\ ret' = 201
    /\ UNCHANGED <<events, accepted, restVars>>
    /\ UNCHANGED vars

\* POST /v1/webhooks: the endpoint row is inserted with active = 1.
create_webhook ==
    /\ Cardinality(DOMAIN endpoints) < NumEndpoints
    /\ \E url \in Urls :
          /\ endpoints' = endpoints @@
                (Cardinality(DOMAIN endpoints) + 1 :> Endpoint(url, TRUE))
          /\ call' = Request("create_webhook", url)
    /\ ret' = 201
    /\ UNCHANGED <<subscribers, events, accepted, restVars>>
    /\ UNCHANGED <<deliveries, clock, pc, batch, cur, posts, lost>>

\* POST /v1/notifications/apple: 400 unless the body is JSON; then the event
\* insert, whose result is dropped, and 200.
apple_notification ==
    /\ accepted < MaxNotifications
    /\ \E body \in Bodies :
          /\ call' = Request("apple_notification", body)
          /\ IF ~body.json
             THEN ret' = 400 /\ UNCHANGED <<events, accepted>>
             ELSE /\ insert_event("APPLE_NOTIFICATION", body.value)
                  /\ accepted' = accepted + 1
                  /\ ret' = 200
    /\ UNCHANGED <<subscribers, restVars>>
    /\ UNCHANGED vars

\* POST /v1/notifications/google: 400 unless message.data is base64 of JSON;
\* then the event insert, whose result is dropped, and 200.
google_notification ==
    /\ accepted < MaxNotifications
    /\ \E data \in PubSubData :
          /\ call' = Request("google_notification", data)
          /\ IF ~data.b64 \/ ~data.bytes.json
             THEN ret' = 400 /\ UNCHANGED <<events, accepted>>
             ELSE /\ insert_event("GOOGLE_NOTIFICATION", data.bytes.value)
                  /\ accepted' = accepted + 1
                  /\ ret' = 200
    /\ UNCHANGED <<subscribers, restVars>>
    /\ UNCHANGED vars

\* A server on an empty store; the delivery worker is not running.
InitNotify ==
    /\ deliveries = <<>>
    /\ endpoints = <<>>
    /\ clock = 0
    /\ pc = "sleep"
    /\ batch = {}
    /\ cur = NoCur
    /\ posts = <<>>
    /\ lost = <<>>
    /\ ApiIdle

NextNotify ==
    \/ submit_receipt
    \/ create_webhook
    \/ apple_notification
    \/ google_notification

SpecNotify == InitNotify /\ [][NextNotify]_<<vars, apiVars>>

(* ----------------------------------------------------- the store adapters *)
\* Dot-separated segments of the longest token text.
MaxSegments == 4

\* anyhow::Result: Ok(value) or Err(error).
Ok(v) == [ok |-> TRUE, v |-> v]
Err(e) == [ok |-> FALSE, e |-> e]

\* The JSON values the adapters read with as_str and as_i64: null (also what
\* indexing an absent key yields), a string, an integer, a number with a
\* fraction.
JNull == [t |-> "null", s |-> "", n |-> 0]
JStr(s) == [t |-> "str", s |-> s, n |-> 0]
JInt(n) == [t |-> "int", s |-> "", n |-> n]
JFloat == [t |-> "float", s |-> "", n |-> 0]

\* value.as_str().unwrap_or(default), value.as_i64().unwrap_or(default).
as_str_or(v, default) == IF v.t = "str" THEN v.s ELSE default
as_i64_or(v, default) == IF v.t = "int" THEN v.n ELSE default

\* doc[key]: the member of an object, null when doc is not an object.
Member(doc, key) == IF doc.obj THEN doc[key] ELSE JNull

\* A JSON string that holds a token: its text is a sequence of characters, of
\* which the model keeps the dots and, between them, runs of characters that
\* are base64url text of some bytes ("b64") or are not base64url text ("raw").
JText(text) == [t |-> "str", text |-> text]
JNoText == [t |-> "null", text |-> <<>>]
JNumber == [t |-> "int", text |-> <<>>]
Dot == [k |-> "dot"]
B64(bytes) == [k |-> "b64", bytes |-> bytes]
Raw == [k |-> "raw"]

\* str::split('.'): the runs between the dots, one more than there are dots.
RECURSIVE split(_)
split(text) ==
    IF \E i \in DOMAIN text : text[i].k = "dot"
    THEN LET i == CHOOSE j \in DOMAIN text :
                     /\ text[j].k = "dot"
                     /\ \A h \in 1..(j - 1) : text[h].k # "dot"
         IN <<SubSeq(text, 1, i - 1)>> \o split(SubSeq(text, i + 1, Len(text)))
    ELSE <<text>>

decode_lossy(part) ==
    IF Len(part) = 1 /\ part[1].k = "b64" THEN Ok(part[1].bytes)
    ELSE Ok(Json([obj |-> FALSE]))

\* URL_SAFE_NO_PAD.decode: the bytes of a run of base64url text; no bytes for
\* the empty string; an error for anything else. Two runs side by side decode
\* to two documents one after the other, which is not a JSON text.
decode(part) ==
    IF \E i \in DOMAIN part : part[i].k # "b64" THEN Err("base64")
    ELSE IF Len(part) = 1 THEN Ok(part[1].bytes)
    ELSE Ok([json |-> FALSE])

\* serde_json::from_slice into a Value: any JSON text parses.
from_slice(bytes) == IF bytes.json THEN Ok(bytes.value) ELSE Err("json")

\* Bytes that are not a JSON text.
NoDocument == [json |-> FALSE, value |-> [obj |-> FALSE]]

\* The claims of a signed transaction: an object with these members, or JSON
\* that is not an object.
TransactionClaims ==
    {[obj |-> FALSE, transactionId |-> JNull, productId |-> JNull]} \cup
    {[obj |-> TRUE, transactionId |-> t, productId |-> JStr("P1")] :
        t \in {JStr("T1"), JStr("T2"), JNull}}

\* Header and signature segments are never read.
Unread == B64(NoDocument)

\* Token texts with the given middle segments: every text of three segments,
\* and texts of 1..MaxSegments segments, among them the empty string and a
\* text with an empty middle segment.
RECURSIVE Segments(_, _)
Segments(n, middle) ==
    IF n = 1 THEN <<middle>>
    ELSE IF n = 2 THEN <<Unread, Dot, middle>>
    ELSE Segments(n - 1, middle) \o <<Dot, Unread>>

Tokens(middles) ==
    {Segments(3, m) : m \in middles} \cup
    {Segments(n, CHOOSE m \in middles : m.k = "b64" /\ m.bytes.json /\ m.bytes.value.obj) :
        n \in 1..MaxSegments} \cup
    {<<>>, <<Unread, Dot, Dot, Unread>>}

TokenFields(middles) == {JNoText, JNumber} \cup {JText(t) : t \in Tokens(middles)}

TransactionMiddles ==
    {Raw, B64(NoDocument)} \cup
    {B64(Json(c)) : c \in TransactionClaims}

\* What the vendor answers to a GET, and whether the request got through.
Response(sent, status, body) == [sent |-> sent, status |-> status, body |-> body]
is_success(status) == status \in 200..299

\* VerifiedTransaction, filled from decoded transaction claims.
AppleTransaction(decoded) ==
    [store_transaction_id |-> as_str_or(Member(decoded, "transactionId"), ""),
     product_id |-> as_str_or(Member(decoded, "productId"), ""),
     status |-> "Active",
     store |-> "Apple"]

\* AppleStoreAdapter::verify_purchase: jwt is whether generate_jwt succeeds.
apple_verify_purchase(jwt, response) ==
    IF ~jwt THEN Err("jwt")
    ELSE IF ~response.sent THEN Err("transport")
    ELSE IF ~is_success(response.status) THEN Err("Apple API error")
    ELSE IF ~from_slice(response.body).ok THEN Err("json")
    ELSE LET body == from_slice(response.body).v
             signed_transaction == Member(body, "signedTransactionInfo")
         IN IF signed_transaction.t # "str" THEN Err("Missing signedTransactionInfo")
            ELSE LET parts == split(signed_transaction.text)
                 IN IF Len(parts) # 3 THEN Err("Invalid JWS format")
                    ELSE IF ~decode(parts[2]).ok THEN Err("base64")
                    ELSE IF ~from_slice(decode(parts[2]).v).ok THEN Err("json")
                    ELSE Ok(AppleTransaction(from_slice(decode(parts[2]).v).v))

apple_event_type_renewal_status(notification_type) ==
    CASE notification_type = "DID_RENEW" -> "RENEWAL"
      [] notification_type = "EXPIRED" -> "EXPIRATION"
      [] notification_type = "DID_FAIL_TO_RENEW" -> "BILLING_ISSUE_DETECTED"
      [] notification_type = "REFUND" -> "REFUND"
      [] notification_type \in {"SUBSCRIBED", "INITIAL_BUY"} -> "INITIAL_PURCHASE"
      [] OTHER -> notification_type

\* The match of AppleStoreAdapter::process_notification.
apple_event_type(notification_type) ==
    CASE notification_type = "DID_RENEW" -> "RENEWAL"
      [] notification_type = "EXPIRED" -> "EXPIRATION"
      [] notification_type = "DID_FAIL_TO_RENEW" -> "BILLING_ISSUE_DETECTED"
      [] notification_type = "REFUND" -> "REFUND"
      [] notification_type \in {"SUBSCRIBED", "INITIAL_BUY"} -> "INITIAL_PURCHASE"
      [] notification_type = "DID_CHANGE_RENEWAL_STATUS" -> "CANCELLATION"
      [] OTHER -> notification_type

\* The nested signed transaction, with a status that follows the event type.
apple_transaction_events_status_by_type(event_type, signed_tx) ==
    IF signed_tx.t # "str" THEN Ok(<<>>)
    ELSE LET tx_parts == split(signed_tx.text)
         IN IF Len(tx_parts) # 3 THEN Ok(<<>>)
            ELSE IF ~decode(tx_parts[2]).ok THEN Err("base64")
            ELSE IF ~from_slice(decode(tx_parts[2]).v).ok THEN Err("json")
            ELSE Ok(<<[event_type |-> event_type,
                       transaction |->
                          [AppleTransaction(from_slice(decode(tx_parts[2]).v).v)
                              EXCEPT !.status =
                                 CASE event_type = "EXPIRATION" -> "Expired"
                                   [] event_type = "REFUND" -> "Refunded"
                                   [] event_type = "BILLING_ISSUE_DETECTED" -> "BillingRetry"
                                   [] OTHER -> "Active"]]>>)

\* process_notification, lines 141-161: the nested signed transaction.
apple_transaction_events(event_type, signed_tx) ==
    IF signed_tx.t # "str" THEN Ok(<<>>)
    ELSE LET tx_parts == split(signed_tx.text)
         IN IF Len(tx_parts) # 3 THEN Ok(<<>>)
            ELSE IF ~decode(tx_parts[2]).ok THEN Err("base64")
            ELSE IF ~from_slice(decode(tx_parts[2]).v).ok THEN Err("json")
            ELSE Ok(<<[event_type |-> event_type,
                       transaction |->
                          AppleTransaction(from_slice(decode(tx_parts[2]).v).v)]>>)

\* AppleStoreAdapter::process_notification.
apple_process_notification(payload) ==
    IF ~from_slice(payload).ok THEN Err("json")
    ELSE LET body == from_slice(payload).v
             signed_payload == Member(body, "signedPayload")
         IN IF signed_payload.t # "str" THEN Err("Missing signedPayload")
            ELSE LET parts == split(signed_payload.text)
                 IN IF Len(parts) # 3 THEN Err("Invalid JWS format")
                    ELSE IF ~decode(parts[2]).ok THEN Err("base64")
                    ELSE IF ~from_slice(decode(parts[2]).v).ok THEN Err("json")
                    ELSE LET decoded == from_slice(decode(parts[2]).v).v
                             notification_type ==
                                as_str_or(Member(decoded, "notificationType"), "UNKNOWN")
                         IN apple_transaction_events(
                               apple_event_type(notification_type),
                               IF decoded.obj THEN decoded.data.signedTransactionInfo
                               ELSE JNoText)

\* The notificationType values of App Store Server Notifications the match
\* names, two it does not name, and an absent member.
AppleNotificationTypes ==
    {JStr(c) : c \in {"DID_RENEW", "EXPIRED", "DID_FAIL_TO_RENEW", "REFUND",
                      "SUBSCRIBED", "INITIAL_BUY", "DID_CHANGE_RENEWAL_STATUS",
                      "PRICE_INCREASE", "TEST"}} \cup {JNull}

\* The claims of a signed notification payload.
NotificationClaims ==
    {[obj |-> FALSE, notificationType |-> JNull,
      data |-> [signedTransactionInfo |-> JNoText]]} \cup
    {[obj |-> TRUE, notificationType |-> c, data |-> [signedTransactionInfo |-> t]] :
        c \in AppleNotificationTypes, t \in TokenFields(TransactionMiddles)}

NotificationMiddles ==
    {Raw, B64(NoDocument)} \cup
    {B64(Json(c)) : c \in NotificationClaims}

\* The bodies Apple, or anyone else, posts.
AppleNotificationBodies ==
    {NoDocument,
     Json([obj |-> FALSE, signedPayload |-> JNoText])} \cup
    {Json([obj |-> TRUE, signedPayload |-> t]) : t \in TokenFields(NotificationMiddles)}

\* The answers to GET /inApps/v1/transactions/{id}.
AppleResponses ==
    {Response(FALSE, 0, NoDocument),
     Response(TRUE, 404, NoDocument),
     Response(TRUE, 200, NoDocument),
     Response(TRUE, 200, Json([obj |-> FALSE, signedTransactionInfo |-> JNoText]))} \cup
    {Response(TRUE, 200, Json([obj |-> TRUE, signedTransactionInfo |-> t])) :
        t \in TokenFields(TransactionMiddles)}

AppleVerifyPurchase ==
    /\ call.op = "apple_verify_purchase"
    /\ ret = NoCall
    /\ ret' = apple_verify_purchase(call.input.jwt, call.input.response)
    /\ UNCHANGED <<subscribers, events, accepted, call, restVars>>
    /\ UNCHANGED vars

AppleProcessNotification ==
    /\ call.op = "apple_process_notification"
    /\ ret = NoCall
    /\ ret' = apple_process_notification(call.input)
    /\ UNCHANGED <<subscribers, events, accepted, call, restVars>>
    /\ UNCHANGED vars

\* Integer notificationType codes of a Google notification: -1..MaxCode.
MaxCode == 14

\* get_access_token: the service account key parses, its private key is an RSA
\* PEM, the token request gets through, the answer holds an access_token.
get_access_token(auth) ==
    IF ~auth.key THEN Err("service account key")
    ELSE IF ~auth.pem THEN Err("private key")
    ELSE IF ~auth.sent THEN Err("transport")
    ELSE IF ~auth.token THEN Err("json")
    ELSE Ok("access_token")

google_status_other_expired(subscription_state) ==
    CASE subscription_state = "SUBSCRIPTION_STATE_ACTIVE" -> "Active"
      [] subscription_state = "SUBSCRIPTION_STATE_EXPIRED" -> "Expired"
      [] subscription_state = "SUBSCRIPTION_STATE_GRACE_PERIOD" -> "GracePeriod"
      [] subscription_state = "SUBSCRIPTION_STATE_ON_HOLD" -> "BillingRetry"
      [] OTHER -> "Expired"

\* The match of GooglePlayAdapter::verify_purchase.
google_status(subscription_state) ==
    CASE subscription_state = "SUBSCRIPTION_STATE_ACTIVE" -> "Active"
      [] subscription_state = "SUBSCRIPTION_STATE_EXPIRED" -> "Expired"
      [] subscription_state = "SUBSCRIPTION_STATE_GRACE_PERIOD" -> "GracePeriod"
      [] subscription_state = "SUBSCRIPTION_STATE_ON_HOLD" -> "BillingRetry"
      [] OTHER -> "Active"

\* GooglePlayAdapter::verify_purchase.
google_verify_purchase(purchase_token, auth, response) ==
    IF ~get_access_token(auth).ok THEN get_access_token(auth)
    ELSE IF ~response.sent THEN Err("transport")
    ELSE IF ~is_success(response.status) THEN Err("Google API error")
    ELSE IF ~from_slice(response.body).ok THEN Err("json")
    ELSE LET body == from_slice(response.body).v
         IN Ok([store_transaction_id |-> purchase_token,
                product_id |->
                   IF body.obj /\ Len(body.lineItems) > 0
                   THEN as_str_or(body.lineItems[1].productId, "")
                   ELSE "",
                status |-> google_status(as_str_or(Member(body, "subscriptionState"), "")),
                store |-> "Google"])

google_event_type_refund_13(notification_type) ==
    CASE notification_type = 1 -> "SUBSCRIPTION_RECOVERED"
      [] notification_type = 2 -> "RENEWAL"
      [] notification_type = 3 -> "CANCELLATION"
      [] notification_type = 4 -> "INITIAL_PURCHASE"
      [] notification_type = 5 -> "ACCOUNT_HOLD"
      [] notification_type = 6 -> "GRACE_PERIOD"
      [] notification_type = 7 -> "RESTARTED"
      [] notification_type = 13 -> "REFUND"
      [] notification_type = 14 -> "EXPIRATION"
      [] OTHER -> "UNKNOWN"

\* The match of GooglePlayAdapter::process_notification.
google_event_type(notification_type) ==
    CASE notification_type = 1 -> "SUBSCRIPTION_RECOVERED"
      [] notification_type = 2 -> "RENEWAL"
      [] notification_type = 3 -> "CANCELLATION"
      [] notification_type = 4 -> "INITIAL_PURCHASE"
      [] notification_type = 5 -> "ACCOUNT_HOLD"
      [] notification_type = 6 -> "GRACE_PERIOD"
      [] notification_type = 7 -> "RESTARTED"
      [] notification_type = 12 -> "REFUND"
      [] notification_type = 13 -> "EXPIRATION"
      [] OTHER -> "UNKNOWN"

google_process_notification_lenient(payload, auth, response) ==
    IF ~from_slice(payload).ok THEN Err("json")
    ELSE LET body == from_slice(payload).v
             notification_type ==
                as_i64_or(IF body.obj
                          THEN body.subscriptionNotification.notificationType
                          ELSE JNull, 0)
             purchase_token ==
                IF body.obj THEN body.subscriptionNotification.purchaseToken
                ELSE JNull
         IN IF purchase_token.t # "str" THEN Err("Missing purchaseToken")
            ELSE LET transaction ==
                        google_verify_purchase(purchase_token.s, auth, response)
                 IN IF ~transaction.ok THEN Ok(<<>>)
                    ELSE Ok(<<[event_type |-> google_event_type(notification_type),
                               transaction |-> transaction.v]>>)

\* GooglePlayAdapter::process_notification.
google_process_notification(payload, auth, response) ==
    IF ~from_slice(payload).ok THEN Err("json")
    ELSE LET body == from_slice(payload).v
             notification_type ==
                as_i64_or(IF body.obj
                          THEN body.subscriptionNotification.notificationType
                          ELSE JNull, 0)
             purchase_token ==
                IF body.obj THEN body.subscriptionNotification.purchaseToken
                ELSE JNull
         IN IF purchase_token.t # "str" THEN Err("Missing purchaseToken")
            ELSE LET transaction ==
                        google_verify_purchase(purchase_token.s, auth, response)
                 IN IF ~transaction.ok THEN transaction
                    ELSE Ok(<<[event_type |-> google_event_type(notification_type),
                               transaction |-> transaction.v]>>)

\* The token exchange goes through, or fails at one of its steps.
Auths ==
    {[key |-> k, pem |-> p, sent |-> s, token |-> t] : k, p, s, t \in BOOLEAN}

PurchaseTokens == {"token-1", "token-2"}

\* The answers to GET .../purchases/subscriptionsv2/tokens/{token}.
GoogleResponses ==
    {Response(FALSE, 0, NoDocument),
     Response(TRUE, 500, NoDocument),
     Response(TRUE, 200, NoDocument),
     Response(TRUE, 200, Json([obj |-> FALSE, subscriptionState |-> JNull,
                               lineItems |-> <<>>]))} \cup
    {Response(TRUE, 200, Json([obj |-> TRUE, subscriptionState |-> st,
                               lineItems |-> items])) :
        st \in {JStr("SUBSCRIPTION_STATE_ACTIVE"), JStr("SUBSCRIPTION_STATE_EXPIRED"),
                JStr("SUBSCRIPTION_STATE_GRACE_PERIOD"), JStr("SUBSCRIPTION_STATE_ON_HOLD"),
                JStr("SUBSCRIPTION_STATE_CANCELED"), JStr("SUBSCRIPTION_STATE_PAUSED"),
                JStr(""), JInt(1), JNull},
        items \in {<<>>, <<[productId |-> JStr("P1")]>>}}

\* The bodies of Google's real-time developer notifications, or anyone else's.
GoogleNotificationBodies ==
    {NoDocument,
     Json([obj |-> FALSE,
           subscriptionNotification |-> [notificationType |-> JNull,
                                         purchaseToken |-> JNull]])} \cup
    {Json([obj |-> TRUE,
           subscriptionNotification |-> [notificationType |-> c, purchaseToken |-> p]]) :
        c \in {JInt(n) : n \in -1..MaxCode} \cup {JStr("2"), JFloat, JNull},
        p \in {JStr(t) : t \in PurchaseTokens} \cup {JInt(1), JNull}}

GoogleVerifyPurchase ==
    /\ call.op = "google_verify_purchase"
    /\ ret = NoCall
    /\ ret' = google_verify_purchase(call.input.purchase_token, call.input.auth,
                                     call.input.response)
    /\ UNCHANGED <<subscribers, events, accepted, call, restVars>>
    /\ UNCHANGED vars

GoogleProcessNotification ==
    /\ call.op = "google_process_notification"
    /\ ret = NoCall
    /\ ret' = google_process_notification(call.input.payload, call.input.auth,
                                          call.input.response)
    /\ UNCHANGED <<subscribers, events, accepted, call, restVars>>
    /\ UNCHANGED vars

\* The calls the adapters can be made to serve.
AdapterCalls ==
    {Request("apple_verify_purchase", [jwt |-> jwt, response |-> response]) :
        jwt \in BOOLEAN, response \in AppleResponses} \cup
    {Request("apple_process_notification", payload) :
        payload \in AppleNotificationBodies} \cup
    {Request("google_verify_purchase",
             [purchase_token |-> purchase_token, auth |-> auth, response |-> response]) :
        purchase_token \in PurchaseTokens, auth \in Auths, response \in GoogleResponses} \cup
    {Request("google_process_notification",
             [payload |-> payload, auth |-> auth, response |-> response]) :
        payload \in GoogleNotificationBodies, auth \in Auths, response \in GoogleResponses}

\* An adapter is handed one call; nothing else runs.
InitAdapters ==
    /\ deliveries = <<>>
    /\ endpoints = <<>>
    /\ clock = 0
    /\ pc = "sleep"
    /\ batch = {}
    /\ cur = NoCur
    /\ posts = <<>>
    /\ lost = <<>>
    /\ subscribers = {}
    /\ events = <<>>
    /\ accepted = 0
    /\ call \in AdapterCalls
    /\ ret = NoCall
    /\ RestIdle

NextAdapters ==
    \/ AppleVerifyPurchase
    \/ AppleProcessNotification
    \/ GoogleVerifyPurchase
    \/ GoogleProcessNotification

SpecAdapters == InitAdapters /\ [][NextAdapters]_<<vars, apiVars>>

(* ------------------------------------------------------ the catalog sync *)
\* Subscriptions of the one subscription group in Apple's catalog.
NumSubscriptions == 2

\* Option<String>.
None == [some |-> FALSE, v |-> ""]
Some(x) == [some |-> TRUE, v |-> x]

\* What a call returns and the GETs it sent, in order.
Sent(r, urls) == [r |-> r, urls |-> urls]

\* amount_str.parse::<f64>().unwrap_or(0.0) * 1_000_000.0 as i64, for the
\* customerPrice values of the catalog.
price_micros(amount_str) ==
    CASE amount_str = "4.99" -> 4990000
      [] amount_str = "0.99" -> 990000
      [] OTHER -> 0

\* The match of fetch_introductory_offer on the offer's duration.
offer_period(duration) ==
    CASE duration = "THREE_DAYS" -> "P3D"
      [] duration = "ONE_WEEK" -> "P1W"
      [] duration = "TWO_WEEKS" -> "P2W"
      [] duration = "ONE_MONTH" -> "P1M"
      [] duration = "TWO_MONTHS" -> "P2M"
      [] duration = "THREE_MONTHS" -> "P3M"
      [] duration = "SIX_MONTHS" -> "P6M"
      [] duration = "ONE_YEAR" -> "P1Y"
      [] OTHER -> duration

\* The match of fetch_subscription_period.
subscription_period(period) ==
    CASE period = "ONE_WEEK" -> "P1W"
      [] period = "ONE_MONTH" -> "P1M"
      [] period = "TWO_MONTHS" -> "P2M"
      [] period = "THREE_MONTHS" -> "P3M"
      [] period = "SIX_MONTHS" -> "P6M"
      [] period = "ONE_YEAR" -> "P1Y"
      [] OTHER -> period

\* A sub-resource of the catalog: the GET fails (no answer, or an answer that
\* is not JSON) or answers with data, a sequence of resources.
Failing == [answers |-> FALSE, data |-> <<>>]
Answer(data) == [answers |-> TRUE, data |-> data]

\* fetch_subscription_localization: the first localization (the catalog of the
\* model has at most one), its name and description.
fetch_subscription_localization(sub) ==
    LET url == <<"subscriptionLocalizations">>
    IN IF ~sub.localizations.answers THEN Sent(Err("request"), url)
       ELSE IF Len(sub.localizations.data) = 0
       THEN Sent(Err("No localizations found"), url)
       ELSE LET loc == sub.localizations.data[1]
            IN Sent(Ok([name |-> as_str_or(loc.name, ""),
                        description |-> IF loc.description.t = "str"
                                        THEN Some(loc.description.s) ELSE None]), url)

\* fetch_subscription_price: the first price, its price point, the territory
\* of the price point.
fetch_subscription_price(sub) ==
    IF ~sub.prices.answers THEN Sent(Err("request"), <<"prices">>)
    ELSE IF Len(sub.prices.data) = 0 THEN Sent(Err("No prices found"), <<"prices">>)
    ELSE LET price == sub.prices.data[1]
         IN IF ~price.link THEN Sent(Err("No price point link"), <<"prices">>)
            ELSE IF ~price.point.answers
            THEN Sent(Err("request"), <<"prices", "subscriptionPricePoint">>)
            ELSE LET amount == price_micros(as_str_or(price.point.customerPrice, "0"))
                 IN IF ~price.point.territory_link
                    THEN Sent(Ok([price_micros |-> amount, currency |-> "USD"]),
                              <<"prices", "subscriptionPricePoint">>)
                    ELSE IF ~price.point.territory.answers
                    THEN Sent(Err("request"),
                              <<"prices", "subscriptionPricePoint", "territory">>)
                    ELSE Sent(Ok([price_micros |-> amount,
                                  currency |->
                                     as_str_or(price.point.territory.currency, "USD")]),
                              <<"prices", "subscriptionPricePoint", "territory">>)

\* fetch_subscription_period.
fetch_subscription_period(sub) ==
    IF ~sub.period.answers THEN Sent(Err("request"), <<"subscriptions">>)
    ELSE Sent(Ok(subscription_period(as_str_or(sub.period.subscriptionPeriod, "ONE_MONTH"))),
              <<"subscriptions">>)

\* fetch_introductory_offer: the first offer, if there is one.
fetch_introductory_offer(sub) ==
    IF ~sub.offers.answers THEN Sent(Err("request"), <<"introductoryOffers">>)
    ELSE IF Len(sub.offers.data) = 0 THEN Sent(Ok(None), <<"introductoryOffers">>)
    ELSE Sent(Ok(Some(offer_period(as_str_or(sub.offers.data[1].duration, "P1W")))),
              <<"introductoryOffers">>)

price_or_default_eur(sub) ==
    IF fetch_subscription_price(sub).r.ok THEN fetch_subscription_price(sub).r.v
    ELSE [price_micros |-> 0, currency |-> "EUR"]

\* fetch_subscriptions, lines 145-146: .unwrap_or((0, "USD")).
price_or_default(sub) ==
    IF fetch_subscription_price(sub).r.ok THEN fetch_subscription_price(sub).r.v
    ELSE [price_micros |-> 0, currency |-> "USD"]

\* fetch_subscriptions, lines 136-161: the product of one subscription; every
\* sub-resource that fails is replaced by its default.
synced_subscription(sub) ==
    LET product_id == as_str_or(sub.productId, "")
        name == as_str_or(sub.name, product_id)
        localization == fetch_subscription_localization(sub).r
        period == fetch_subscription_period(sub).r
        trial == fetch_introductory_offer(sub).r
    IN [store_product_id |-> product_id,
        display_name |-> IF localization.ok THEN localization.v.name ELSE name,
        description |-> IF localization.ok THEN localization.v.description ELSE None,
        price_micros |-> price_or_default(sub).price_micros,
        currency |-> price_or_default(sub).currency,
        subscription_period |-> IF period.ok THEN Some(period.v) ELSE None,
        trial_period |-> IF trial.ok THEN trial.v ELSE None,
        product_type |-> "subscription"]

\* The GETs sent for one subscription.
subscription_urls(sub) ==
    fetch_subscription_localization(sub).urls \o fetch_subscription_price(sub).urls \o
    fetch_subscription_period(sub).urls \o fetch_introductory_offer(sub).urls

RECURSIVE Flatten(_)
Flatten(seqs) == IF seqs = <<>> THEN <<>> ELSE Head(seqs) \o Flatten(Tail(seqs))

\* fetch_subscriptions: the groups, the subscriptions of each group (the
\* catalog of the model has at most one group), the product of each
\* subscription.
fetch_subscriptions(catalog) ==
    IF ~catalog.groups.answers THEN Sent(Err("request"), <<"subscriptionGroups">>)
    ELSE IF Len(catalog.groups.data) = 0 THEN Sent(Ok(<<>>), <<"subscriptionGroups">>)
    ELSE LET subs == catalog.groups.data[1]
         IN IF ~subs.answers
            THEN Sent(Err("request"), <<"subscriptionGroups", "subscriptions">>)
            ELSE Sent(Ok([i \in DOMAIN subs.data |-> synced_subscription(subs.data[i])]),
                      <<"subscriptionGroups", "subscriptions">> \o
                      Flatten([i \in DOMAIN subs.data |-> subscription_urls(subs.data[i])]))

\* fetch_in_app_purchases.
fetch_in_app_purchases(catalog) ==
    IF ~catalog.iaps.answers THEN Sent(Err("request"), <<"inAppPurchasesV2">>)
    ELSE Sent(Ok([i \in DOMAIN catalog.iaps.data |->
                    LET iap == catalog.iaps.data[i]
                        product_id == as_str_or(iap.productId, "")
                    IN [store_product_id |-> product_id,
                        display_name |-> as_str_or(iap.name, product_id),
                        description |-> None,
                        price_micros |-> 0,
                        currency |-> "USD",
                        subscription_period |-> None,
                        trial_period |-> None,
                        product_type |->
                           IF as_str_or(iap.inAppPurchaseType, "CONSUMABLE") = "NON_CONSUMABLE"
                           THEN "non_consumable" ELSE "consumable"]]),
              <<"inAppPurchasesV2">>)

\* AppleConnectClient::sync_products: the JWT is generated once, then
\* find_app_id, fetch_subscriptions and fetch_in_app_purchases; `?` ends the
\* sync at the first of them that fails.
sync_products(catalog) ==
    IF ~catalog.jwt THEN Sent(Err("jwt"), <<>>)
    ELSE IF ~catalog.app.answers THEN Sent(Err("request"), <<"apps">>)
    ELSE IF Len(catalog.app.data) = 0 THEN Sent(Err("App not found"), <<"apps">>)
    ELSE LET subscription_products == fetch_subscriptions(catalog)
             iap_products == fetch_in_app_purchases(catalog)
         IN IF ~subscription_products.r.ok
            THEN Sent(subscription_products.r, <<"apps">> \o subscription_products.urls)
            ELSE IF ~iap_products.r.ok
            THEN Sent(iap_products.r,
                      <<"apps">> \o subscription_products.urls \o iap_products.urls)
            ELSE Sent(Ok(subscription_products.r.v \o iap_products.r.v),
                      <<"apps">> \o subscription_products.urls \o iap_products.urls)

\* The sub-resources a subscription can have in App Store Connect.
Localizations ==
    {Failing, Answer(<<>>),
     Answer(<<[name |-> JStr("Pro"), description |-> JStr("All features")]>>),
     Answer(<<[name |-> JStr("Pro"), description |-> JNull]>>)}

Territories == {[answers |-> FALSE, currency |-> JNull],
                [answers |-> TRUE, currency |-> JStr("EUR")]}

PricePoints ==
    {[answers |-> FALSE, customerPrice |-> JNull, territory_link |-> FALSE,
      territory |-> [answers |-> FALSE, currency |-> JNull]],
     [answers |-> TRUE, customerPrice |-> JStr("4.99"), territory_link |-> FALSE,
      territory |-> [answers |-> FALSE, currency |-> JNull]]} \cup
    {[answers |-> TRUE, customerPrice |-> JStr("4.99"), territory_link |-> TRUE,
      territory |-> t] : t \in Territories}

Prices ==
    {Failing, Answer(<<>>),
     Answer(<<[link |-> FALSE, point |-> CHOOSE p \in PricePoints : ~p.answers]>>)} \cup
    {Answer(<<[link |-> TRUE, point |-> p]>>) : p \in PricePoints}

Periods == {[answers |-> FALSE, subscriptionPeriod |-> JNull],
            [answers |-> TRUE, subscriptionPeriod |-> JStr("ONE_YEAR")]}

Offers == {Failing, Answer(<<>>), Answer(<<[duration |-> JStr("ONE_WEEK")]>>)}

Subscription(n) ==
    {[id |-> n, productId |-> JStr(IF n = 1 THEN "com.app.pro" ELSE "com.app.plus"),
      name |-> JStr("Plan"), localizations |-> l, prices |-> p, period |-> d,
      offers |-> o] :
        l \in Localizations, p \in Prices, d \in Periods, o \in Offers}

\* Sequences of n subscriptions.
RECURSIVE Subscriptions(_)
Subscriptions(n) ==
    IF n = 0 THEN {<<>>}
    ELSE {Append(subs, sub) : subs \in Subscriptions(n - 1), sub \in Subscription(n)}

InAppPurchases ==
    {Failing, Answer(<<>>),
     Answer(<<[productId |-> JStr("com.app.coins"), name |-> JNull,
               inAppPurchaseType |-> JStr("NON_CONSUMABLE")]>>)}

\* What App Store Connect holds and how it answers: a sync that ends early, or
\* one that reaches the subscriptions.
Catalogs ==
    LET full == [jwt |-> TRUE, app |-> Answer(<<"app-1">>),
                 groups |-> Answer(<<Answer(<<>>)>>), iaps |-> Answer(<<>>)]
    IN {[full EXCEPT !.jwt = FALSE], [full EXCEPT !.app = Failing],
        [full EXCEPT !.app = Answer(<<>>)], [full EXCEPT !.groups = Failing],
        [full EXCEPT !.groups = Answer(<<>>)],
        [full EXCEPT !.groups = Answer(<<Failing>>)]} \cup
       {[full EXCEPT !.groups = Answer(<<Answer(subs)>>), !.iaps = i] :
           subs \in Subscriptions(NumSubscriptions), i \in InAppPurchases}

\* POST /v1/apps/{app_id}/sync-products as far as App Store Connect goes: the
\* one JWT of the sync is sent with every GET.
SyncProducts ==
    /\ call.op = "sync_products"
    /\ ret = NoCall
    /\ ret' = sync_products(call.input).r
    /\ outbound' = [i \in DOMAIN sync_products(call.input).urls |->
                       [url |-> sync_products(call.input).urls[i], token |-> 1]]
    /\ UNCHANGED <<subscribers, events, accepted, call>>
    /\ UNCHANGED <<transactions, inflight, worker2, credentials, product_entitlements>>
    /\ UNCHANGED vars

InitSync ==
    /\ deliveries = <<>>
    /\ endpoints = <<>>
    /\ clock = 0
    /\ pc = "sleep"
    /\ batch = {}
    /\ cur = NoCur
    /\ posts = <<>>
    /\ lost = <<>>
    /\ subscribers = {}
    /\ events = <<>>
    /\ accepted = 0
    /\ call \in {Request("sync_products", c) : c \in Catalogs}
    /\ ret = NoCall
    /\ RestIdle

SpecSync == InitSync /\ [][SyncProducts]_<<vars, apiVars>>

(* ------------------------------------------- receipts and subscriber lookup *)

\* Receipts submitted in one behaviour, each by a request of its own.
NumRequests == 2

RequestIds == 1..NumRequests
ProductIds == {"P", "Q"}
EntitlementIds == {"pro", "plus"}

\* What serving a receipt or a lookup leaves alone.
receiptFrame ==
    <<events, accepted, outbound, worker2, credentials, product_entitlements>>

\* A request slot no receipt has arrived on.
NoReceipt ==
    [pc |-> "idle", app_id |-> "", app_user_id |-> 0, product_id |-> "",
     subscriber |-> 0, status |-> 0]

\* SubmitReceipt: the fields of the body the handler stores in key columns.
SubmitReceipt(a, u, p) ==
    [pc |-> "insert_subscriber", app_id |-> a, app_user_id |-> u,
     product_id |-> p, subscriber |-> 0, status |-> 0]

\* SELECT * FROM subscribers WHERE app_id = ? AND app_user_id = ?
subscribers_of(a, u) ==
    {s \in subscribers : s.app_id = a /\ s.app_user_id = u}

\* INSERT OR IGNORE without the conflict: the row is always inserted.
insert_always(rows, row) == rows \cup {row}

\* INSERT OR IGNORE INTO subscribers: the row is inserted unless a row of
\* the same (app_id, app_user_id) is there, and then nothing is written.
insert_or_ignore(rows, row) ==
    IF \E s \in rows : s.app_id = row.app_id /\ s.app_user_id = row.app_user_id
    THEN rows
    ELSE rows \cup {row}

\* POST /v1/receipts arrives. The uuids the handler draws for the subscriber
\* row and for the transaction row are the number of its request: no other
\* request draws them.
ReceiveReceipt(r) ==
    /\ inflight[r].pc = "idle"
    /\ \E a \in {"A", "B"}, u \in UserIds, p \in ProductIds :
          inflight' = [inflight EXCEPT ![r] = SubmitReceipt(a, u, p)]
    /\ UNCHANGED <<subscribers, transactions, call, ret, receiptFrame>>
    /\ UNCHANGED vars

InsertSubscriber(r) ==
    /\ inflight[r].pc = "insert_subscriber"
    /\ subscribers' =
          insert_or_ignore(subscribers,
                           [id |-> r, app_id |-> inflight[r].app_id,
                            app_user_id |-> inflight[r].app_user_id])
    /\ inflight' = [inflight EXCEPT ![r].pc = "select_subscriber"]
    /\ UNCHANGED <<transactions, call, ret, receiptFrame>>
    /\ UNCHANGED vars

\* fetch_one: one of the rows of (app, app user); no row is an error (500).
SelectSubscriber(r) ==
    /\ inflight[r].pc = "select_subscriber"
    /\ IF subscribers_of(inflight[r].app_id, inflight[r].app_user_id) = {}
       THEN inflight' = [inflight EXCEPT ![r].pc = "done", ![r].status = 500]
       ELSE \E s \in subscribers_of(inflight[r].app_id, inflight[r].app_user_id) :
               inflight' = [inflight EXCEPT ![r].pc = "insert_transaction",
                                            ![r].subscriber = s.id]
    /\ UNCHANGED <<subscribers, transactions, call, ret, receiptFrame>>
    /\ UNCHANGED vars

\* INSERT INTO transactions (...) VALUES (?, ?, ?, ?, ?, ?, 'active', ...)
InsertTransaction(r) ==
    /\ inflight[r].pc = "insert_transaction"
    /\ transactions' =
          Append(transactions,
                 [id |-> r, subscriber_id |-> inflight[r].subscriber,
                  product_id |-> inflight[r].product_id, status |-> "active"])
    /\ inflight' = [inflight EXCEPT ![r].pc = "select_transaction"]
    /\ UNCHANGED <<subscribers, call, ret, receiptFrame>>
    /\ UNCHANGED vars

\* SELECT * FROM transactions WHERE id = ?, then 201 with the row.
SelectTransaction(r) ==
    /\ inflight[r].pc = "select_transaction"
    /\ inflight' =
          [inflight EXCEPT ![r].pc = "done",
                           ![r].status =
                               IF \E i \in DOMAIN transactions : transactions[i].id = r
                               THEN 201 ELSE 500]
    /\ UNCHANGED <<subscribers, transactions, call, ret, receiptFrame>>
    /\ UNCHANGED vars

\* Any of the four statements fails: map_err answers 500 and the handler
\* returns, what it wrote before stays written.
StatementFails(r) ==
    /\ inflight[r].pc \in {"insert_subscriber", "select_subscriber",
                           "insert_transaction", "select_transaction"}
    /\ inflight' = [inflight EXCEPT ![r].pc = "done", ![r].status = 500]
    /\ UNCHANGED <<subscribers, transactions, call, ret, receiptFrame>>
    /\ UNCHANGED vars

\* SELECT * FROM transactions WHERE subscriber_id = ? (the rows; their
\* order, by purchase_date, is not kept).
transactions_of(id) ==
    {transactions[i] : i \in {j \in DOMAIN transactions :
                                 transactions[j].subscriber_id = id}}

\* The join without pe.product_id = t.product_id.
entitlements_any_product(id) ==
    {e \in EntitlementIds :
        /\ \E t \in transactions_of(id) : t.status = "active"
        /\ \E p \in ProductIds : <<p, e>> \in product_entitlements}

\* SELECT DISTINCT e.* FROM entitlements e JOIN product_entitlements pe ...
\* JOIN transactions t ... WHERE t.subscriber_id = ? AND t.status = 'active'
active_entitlements(id) ==
    {e \in EntitlementIds :
        \E t \in transactions_of(id) :
           /\ t.status = "active"
           /\ <<t.product_id, e>> \in product_entitlements}

\* GET /v1/subscribers/{app_user_id}: the responses the handler can give.
\* fetch_optional takes one of the rows of the app user, of whichever app
\* (the query has no app_id and no ORDER BY); no row is 404.
get_subscriber(u) ==
    IF \A s \in subscribers : s.app_user_id # u
    THEN {[status |-> 404,
           subscriber |-> [id |-> 0, app_id |-> "", app_user_id |-> 0],
           active_entitlements |-> {}, transactions |-> {}]}
    ELSE {[status |-> 200, subscriber |-> s,
           active_entitlements |-> active_entitlements(s.id),
           transactions |-> transactions_of(s.id)] :
             s \in {x \in subscribers : x.app_user_id = u}}

GetSubscriber ==
    /\ \E u \in UserIds :
          /\ call' = Request("get_subscriber", u)
          /\ ret' \in get_subscriber(u)
    /\ UNCHANGED <<subscribers, transactions, inflight, receiptFrame>>
    /\ UNCHANGED vars

InitReceipts ==
    /\ deliveries = <<>>
    /\ endpoints = <<>>
    /\ clock = 0
    /\ pc = "sleep"
    /\ batch = {}
    /\ cur = NoCur
    /\ posts = <<>>
    /\ lost = <<>>
    /\ subscribers = {}
    /\ events = <<>>
    /\ accepted = 0
    /\ call = NoCall
    /\ ret = NoCall
    /\ transactions = <<>>
    /\ inflight = [r \in RequestIds |-> NoReceipt]
    /\ outbound = <<>>
    /\ worker2 = [pc |-> "off", batch |-> {}, cur |-> NoCur]
    /\ credentials = <<>>
    /\ product_entitlements \in SUBSET (ProductIds \X EntitlementIds)

NextReceipts ==
    \/ \E r \in RequestIds : ReceiveReceipt(r)
    \/ \E r \in RequestIds : InsertSubscriber(r)
    \/ \E r \in RequestIds : SelectSubscriber(r)
    \/ \E r \in RequestIds : InsertTransaction(r)
    \/ \E r \in RequestIds : SelectTransaction(r)
    \/ \E r \in RequestIds : StatementFails(r)
    \/ GetSubscriber

SpecReceipts == InitReceipts /\ [][NextReceipts]_<<vars, apiVars>>

(* ------------------------------------------ two workers on the same store *)

\* The clock is followed up to this instant (seconds) while two workers run.
MaxClock == 5

\* A second WebhookDeliveryWorker is constructed on the same pool and its run
\* is spawned.
StartWorker2 ==
    /\ worker2.pc = "off"
    /\ worker2' = [worker2 EXCEPT !.pc = "sleep"]
    /\ UNCHANGED <<subscribers, events, accepted, call, ret>>
    /\ UNCHANGED <<transactions, inflight, outbound, credentials, product_entitlements>>
    /\ UNCHANGED vars

\* process_pending of the second worker, lines 27-41: the same selection
\* query, on the rows as they are now.
SelectBatch2 ==
    /\ worker2.pc = "sleep"
    /\ \E B \in SUBSET EligibleIds(clock) :
          /\ Cardinality(B) = Min(BatchLimit, Cardinality(EligibleIds(clock)))
          /\ worker2' =
                [pc |-> IF B = {} THEN "sleep" ELSE "loop",
                 batch |-> {[id |-> id,
                             url |-> endpoints[deliveries[id].webhook_endpoint_id].url,
                             attempts |-> deliveries[id].attempts] : id \in B},
                 cur |-> NoCur]
    /\ UNCHANGED <<subscribers, events, accepted, call, ret>>
    /\ UNCHANGED <<transactions, inflight, outbound, credentials, product_entitlements>>
    /\ UNCHANGED vars

\* process_pending of the second worker, lines 43-53.
Dispatch2 ==
    /\ worker2.pc = "loop"
    /\ \E b \in worker2.batch :
       \E result \in Responses(b.url) :
          /\ worker2' = [pc |-> "write",
                         batch |-> worker2.batch \ {b},
                         cur |-> [id |-> b.id, attempts |-> b.attempts,
                                  result |-> result, now |-> clock]]
          /\ posts' = [posts EXCEPT ![b.id] = @ + 1]
    /\ UNCHANGED <<deliveries, endpoints, clock, pc, batch, cur, lost>>
    /\ UNCHANGED <<subscribers, events, accepted, call, ret>>
    /\ UNCHANGED <<transactions, inflight, outbound, credentials, product_entitlements>>

\* process_pending of the second worker, lines 55-71, and mark_failed: the
\* UPDATEs name the row by id alone (WHERE id = ?) and write the attempts
\* value read by the selection plus one, whatever the row holds now.
WriteOutcome2 ==
    /\ worker2.pc = "write"
    /\ deliveries' =
          [deliveries EXCEPT ![worker2.cur.id] =
              IF worker2.cur.result = "2xx"
              THEN mark_delivered(@, worker2.cur.attempts + 1, worker2.cur.now)
              ELSE mark_failed(@, IF worker2.cur.result = "non2xx"
                                  THEN "HTTP" ELSE "transport",
                               worker2.cur.attempts + 1, worker2.cur.now, clock)]
    /\ worker2' = [worker2 EXCEPT !.cur = NoCur,
                                  !.pc = IF worker2.batch = {} THEN "sleep" ELSE "loop"]
    /\ UNCHANGED <<endpoints, clock, pc, batch, cur, posts, lost>>
    /\ UNCHANGED <<subscribers, events, accepted, call, ret>>
    /\ UNCHANGED <<transactions, inflight, outbound, credentials, product_entitlements>>

\* Time passes, up to the last retry instant followed with two workers.
TickTwo ==
    /\ Tick
    /\ clock' <= MaxClock

NextTwo ==
    \/ SelectBatch
    \/ Dispatch
    \/ WriteOutcome
    \/ TickTwo
    \/ StartWorker2
    \/ SelectBatch2
    \/ Dispatch2
    \/ WriteOutcome2

SpecTwo == Init /\ [][NextTwo]_<<vars, apiVars>>

(* ------------------------------------------------------- the event listing *)

\* Event rows in the table when the listing is asked for.
MaxEvents == 101

\* A query parameter that is not given (Option<i64>; since, an instant, is
\* kept as a number too).
Absent == [some |-> FALSE, v |-> 0]

\* The events table with n rows: row i was created at instant i.
EventRows(n) == [i \in 1..n |-> [id |-> i, created_at |-> i]]

RECURSIVE Reverse(_)
Reverse(rows) ==
    IF rows = <<>> THEN <<>>
    ELSE Append(Reverse(Tail(rows)), Head(rows))

\* LIMIT ? of SQLite: the first n rows, and every row when n is negative (a
\* negative LIMIT is no upper bound).
sql_limit(rows, n) ==
    IF n < 0 THEN rows
    ELSE SubSeq(rows, 1, Min(n, Len(rows)))

\* let limit = query.limit.unwrap_or(50).min(100);
limit_of(query) ==
    Min(IF query.limit.some THEN query.limit.v ELSE 50, 100)

\* GET /v1/events: the body of the 200 response. The rows are kept by
\* created_at ascending: WHERE created_at > ? ORDER BY created_at ASC selects
\* from them in order, ORDER BY created_at DESC reverses them.
list_events(rows, query) ==
    IF query.since.some
    THEN sql_limit(SelectSeq(rows, LAMBDA row : row.created_at > query.since.v),
                   limit_of(query))
    ELSE sql_limit(Reverse(rows), limit_of(query))

\* The queries: limit absent, negative, zero, up to the cap and above it (an
\* i64; the handler only compares it, so no value of it overflows); since
\* absent, before every row, between two rows.
EventsQueries ==
    {[since |-> s, limit |-> l] :
        s \in {Absent, Some(0), Some(1)},
        l \in {Absent} \cup {Some(n) : n \in {-1000000, -1, 0, 1, 50, 51, 100,
                                               101, 1000000}}}

ListEvents ==
    /\ call.op = "list_events"
    /\ ret = NoCall
    /\ ret' = [status |-> 200, events |-> list_events(events, call.input)]
    /\ UNCHANGED <<subscribers, events, accepted, call, restVars>>
    /\ UNCHANGED vars

InitEvents ==
    /\ deliveries = <<>>
    /\ endpoints = <<>>
    /\ clock = 0
    /\ pc = "sleep"
    /\ batch = {}
    /\ cur = NoCur
    /\ posts = <<>>
    /\ lost = <<>>
    /\ subscribers = {}
    /\ events \in {EventRows(n) : n \in 0..MaxEvents}
    /\ accepted = 0
    /\ call \in {Request("list_events", q) : q \in EventsQueries}
    /\ ret = NoCall
    /\ RestIdle

SpecEvents == InitEvents /\ [][ListEvents]_<<vars, apiVars>>

(* ------------------------------------------------- the store credentials *)

\* Option<AppleCredentials>: None, serialized as null.
NoApple == [null |-> TRUE, issuer_id |-> "", key_id |-> "", private_key |-> ""]

\* AppleCredentials { issuer_id, key_id, private_key }
AppleCredentials(issuer_id, key_id, private_key) ==
    [null |-> FALSE, issuer_id |-> issuer_id, key_id |-> key_id,
     private_key |-> private_key]

\* StoreCredentials { apple }, and the JSON object it serializes to.
StoreCredentials(apple) == [has_apple |-> TRUE, apple |-> apple]

\* serde_json::json!({})
EmptyObject == [has_apple |-> FALSE, apple |-> NoApple]

\* serde_json::to_string and serde_json::from_str of a credentials value: the
\* text holds the members as they are, and a text that is not JSON does not
\* parse.
to_string(creds) == [json |-> TRUE, value |-> creds]
from_str(text) == IF text.json THEN Ok(text.value) ELSE Err("json")

\* The row of the app: absent, or with its store_credentials_encrypted
\* column (NULL until update_credentials has written it).
NoApp == [app |-> FALSE, stored |-> [some |-> FALSE, v |-> to_string(EmptyObject)]]
NullColumn == [app |-> TRUE, stored |-> [some |-> FALSE, v |-> to_string(EmptyObject)]]

\* UPDATE apps SET store_credentials_encrypted = ? ... WHERE id = ?
\* (no row is written when the app does not exist; the answer is 200 still).
update_credentials(row, apple) ==
    IF row.app
    THEN [row EXCEPT !.stored = Some(to_string(StoreCredentials(apple)))]
    ELSE row

\* get_credentials answering with the stored value as it is.
get_credentials_unmasked(row) ==
    IF ~row.app THEN [status |-> 404, body |-> EmptyObject]
    ELSE IF ~row.stored.some THEN [status |-> 200, body |-> EmptyObject]
    ELSE IF ~from_str(row.stored.v).ok THEN [status |-> 500, body |-> EmptyObject]
    ELSE [status |-> 200, body |-> from_str(row.stored.v).v]

\* GET /v1/apps/{app_id}/credentials: the member "apple", when it is there
\* and holds a member "private_key", has it overwritten.
get_credentials(row) ==
    IF ~row.app THEN [status |-> 404, body |-> EmptyObject]
    ELSE IF ~row.stored.some THEN [status |-> 200, body |-> EmptyObject]
    ELSE IF ~from_str(row.stored.v).ok THEN [status |-> 500, body |-> EmptyObject]
    ELSE LET creds == from_str(row.stored.v).v
         IN [status |-> 200,
             body |-> IF creds.has_apple /\ ~creds.apple.null
                      THEN [creds EXCEPT !.apple.private_key = "***configured***"]
                      ELSE creds]

\* PUT /v1/apps/{app_id}/credentials, on two stores that are sent the same
\* requests but for the private key: empty, one of two keys, or the text the
\* handler answers with.
UpdateCredentials ==
    /\ \/ credentials' = [i \in {1, 2} |-> update_credentials(credentials[i], NoApple)]
       \/ \E issuer_id \in {"issuer-1", "issuer-2"}, key_id \in {"K1", "K2"},
             k1 \in {"", "KEY-A", "KEY-B", "***configured***"},
             k2 \in {"", "KEY-A", "KEY-B", "***configured***"} :
             credentials' =
                <<update_credentials(credentials[1], AppleCredentials(issuer_id, key_id, k1)),
                  update_credentials(credentials[2], AppleCredentials(issuer_id, key_id, k2))>>
    /\ call' = Request("update_credentials", 0)
    /\ ret' = [first |-> [status |-> 200, body |-> EmptyObject],
               second |-> [status |-> 200, body |-> EmptyObject]]
    /\ UNCHANGED <<subscribers, events, accepted>>
    /\ UNCHANGED <<transactions, inflight, outbound, worker2, product_entitlements>>
    /\ UNCHANGED vars

\* GET /v1/apps/{app_id}/credentials, on both stores.
GetCredentials ==
    /\ call' = Request("get_credentials", 0)
    /\ ret' = [first |-> get_credentials(credentials[1]),
               second |-> get_credentials(credentials[2])]
    /\ UNCHANGED <<subscribers, events, accepted>>
    /\ UNCHANGED <<transactions, inflight, outbound, worker2, credentials, product_entitlements>>
    /\ UNCHANGED vars

InitCredentials ==
    /\ deliveries = <<>>
    /\ endpoints = <<>>
    /\ clock = 0
    /\ pc = "sleep"
    /\ batch = {}
    /\ cur = NoCur
    /\ posts = <<>>
    /\ lost = <<>>
    /\ subscribers = {}
    /\ events = <<>>
    /\ accepted = 0
    /\ call = NoCall
    /\ ret = NoCall
    /\ transactions = <<>>
    /\ inflight = <<>>
    /\ outbound = <<>>
    /\ worker2 = [pc |-> "off", batch |-> {}, cur |-> NoCur]
    /\ credentials \in {<<NoApp, NoApp>>, <<NullColumn, NullColumn>>}
    /\ product_entitlements = {}

NextCredentials ==
    \/ UpdateCredentials
    \/ GetCredentials

SpecCredentials == InitCredentials /\ [][NextCredentials]_<<vars, apiVars>>

(* ---------------------------------------------------------------- claims *)
Terminal(d) == d.status \in {"delivered", "dead_letter"}

BatchIds == {b.id : b \in batch}

\* The row update of WriteOutcome has just been applied to row id.
Written(id) == pc = "write" /\ cur.id = id /\ pc' # "write" /\ lost' = lost

\* POSTs of row id whose outcome has not been written (yet).
InFlight(id) == IF cur.id = id THEN 1 ELSE 0

\* C1: once a row is delivered or dead_letter, no step selects it, POSTs it or
\* changes any of its fields.
C1_TerminalFrozen ==
    [][\A id \in DOMAIN deliveries :
          Terminal(deliveries[id]) =>
             /\ deliveries'[id] = deliveries[id]
             /\ posts'[id] = posts[id]
             /\ id \notin BatchIds'
             /\ cur'.id # id]_vars

\* A polling cycle that selected row b after row a became terminal.
C1_Witness ==
    \E a, b \in DOMAIN deliveries :
       /\ Terminal(deliveries[a])
       /\ b \in BatchIds
       /\ deliveries[b].next_retry_at > deliveries[a].last_attempt_at

\* C2 as stated: outside the POST-to-update window of a row, its attempts
\* equals the number of POSTs sent for it.
C2_AttemptsCountPosts ==
    \A id \in DOMAIN deliveries :
       cur.id # id => deliveries[id].attempts = posts[id]

AttemptsCountWritten(id) ==
    deliveries[id].attempts = posts[id] - lost[id] - InFlight(id)

\* C2 amended: attempts never decreases, and it equals the number of POSTs of
\* the row whose outcome update succeeded: the POSTs sent, less the one awaiting
\* its update, less those whose update returned an error.
C2_AttemptsCountWrittenPosts ==
    [][\A id \in DOMAIN deliveries :
          /\ AttemptsCountWritten(id)
          /\ AttemptsCountWritten(id)'
          /\ deliveries'[id].attempts >= deliveries[id].attempts]_vars

\* A row POSTed more often than its attempts says, with nothing in flight.
C2_Witness ==
    \E id \in DOMAIN deliveries :
       /\ pc = "sleep"
       /\ lost[id] = 1
       /\ deliveries[id].attempts >= 2
       /\ posts[id] = deliveries[id].attempts + 1

\* C3: next_retry_at is non-null only in rows of status failed.
C3_RetryOnlyWhileFailed ==
    \A id \in DOMAIN deliveries :
       deliveries[id].next_retry_at # Null => deliveries[id].status = "failed"

\* C4: every dead_letter row has attempts = 10.
C4_DeadLetterAtTen ==
    \A id \in DOMAIN deliveries :
       deliveries[id].status = "dead_letter" => deliveries[id].attempts = MaxAttempts

C4_Witness ==
    \E id \in DOMAIN deliveries : deliveries[id].status = "dead_letter"

\* The table of the retry policy, indexed by the attempt count from 1 and
\* clamped to its length.
BackoffTable(n) == delays[Min(n, Len(delays))]

\* C5: the retry after the n-th attempt is scheduled BackoffTable(n) seconds
\* after the failure is recorded: 1 s after the first.
C5_BackoffOneBased ==
    [][\A id \in DOMAIN deliveries :
          (Written(id) /\ deliveries'[id].status = "failed") =>
             deliveries'[id].next_retry_at =
                clock + BackoffTable(deliveries'[id].attempts)]_vars

C7_SuccessClearsRetryFields ==
    [][\A id \in DOMAIN deliveries :
          (Written(id) /\ cur.result = "2xx") =>
             /\ deliveries'[id].status = "delivered"
             /\ deliveries'[id].attempts = deliveries[id].attempts + 1
             /\ deliveries'[id].last_attempt_at = cur.now
             /\ deliveries'[id].next_retry_at = Null
             /\ deliveries'[id].last_error = NoError]_vars

\* Row id may be selected or POSTed now.
Due(id) ==
    /\ deliveries[id].status \in {"pending", "failed"}
    /\ (deliveries[id].next_retry_at = Null \/ deliveries[id].next_retry_at <= clock)

\* C8: a row is selected, and POSTed, only while pending or failed with
\* next_retry_at null or not later than the current time.
C8_DispatchOnlyWhenDue ==
    [][/\ (pc = "sleep" /\ pc' = "loop") => \A id \in BatchIds' : Due(id)
       /\ \A id \in DOMAIN deliveries : posts'[id] > posts[id] => Due(id)]_vars

\* A polling cycle is under way while a failed row that was retried before is
\* waiting for its retry instant.
C8_Witness ==
    \E id \in DOMAIN deliveries :
       /\ deliveries[id].status = "failed"
       /\ deliveries[id].next_retry_at > clock
       /\ posts[id] >= 2
       /\ pc = "loop"

\* C9: a row of an inactive endpoint is never selected nor POSTed and keeps all
\* its fields.
C9_InactiveUntouched ==
    \A id \in DOMAIN deliveries :
       ~endpoints[deliveries[id].webhook_endpoint_id].active =>
          /\ posts[id] = 0
          /\ id \notin BatchIds
          /\ cur.id # id
          /\ deliveries[id] = NewDelivery(deliveries[id].webhook_endpoint_id)

\* Polling cycles have dispatched another row several times while a row of an
\* inactive endpoint is in the store.
C9_Witness ==
    \E a, b \in DOMAIN deliveries :
       /\ ~endpoints[deliveries[a].webhook_endpoint_id].active
       /\ posts[b] >= 2
       /\ deliveries[a].status = "pending"

AllTerminal == \A id \in DOMAIN deliveries : Terminal(deliveries[id])

\* C10: with the engine loop running, the store calls succeeding and the
\* endpoints active, every row ends delivered or dead_letter, also when more
\* rows are eligible than one selection takes, and a row whose POST is answered
\* 2xx ends delivered.
C10_EventualDelivery ==
    /\ <>[]AllTerminal
    /\ [][(pc = "write" /\ cur.result = "2xx" /\ pc' # "write") =>
             deliveries'[cur.id].status = "delivered"]_vars

\* More rows than one selection takes were eligible at once, and all of them
\* have ended: the new ones delivered, the old one dead-lettered after its
\* last retry.
C10_Witness ==
    /\ Cardinality(DOMAIN deliveries) > BatchLimit
    /\ pc = "sleep"
    /\ AllTerminal
    /\ \E id \in DOMAIN deliveries :
          deliveries[id].status = "dead_letter" /\ posts[id] = MaxAttempts
    /\ \E id \in DOMAIN deliveries : deliveries[id].status = "delivered"

\* C11: while the POST of one row waits for its response, the dispatch of the
\* rows left in the batch does not wait with it: the next POST can be sent.
C11_DispatchIndependent ==
    (pc = "await" /\ batch # {}) => ENABLED Send

\* The subscriber row of an app user, if there is one.
SubscriberOf(u) == {s \in subscribers : s.app_user_id = u}

\* C12: a notification that stores an event creates, for each active endpoint,
\* exactly one new delivery row, pending with attempts 0 (the rows of a step
\* are the rows of its event, so no two rows share an (endpoint, event) pair).
C12_FanOutPerEndpoint ==
    [][Len(events') > Len(events) =>
          \A e \in DOMAIN endpoints :
             endpoints[e].active =>
                Cardinality({d \in DOMAIN deliveries' \ DOMAIN deliveries :
                                deliveries'[d] = NewDelivery(e)}) = 1]_<<vars, apiVars>>

\* C13: every accepted notification adds one event row, also while no
\* subscriber row exists, and then no delivery row is created.
C13_EventPerNotification ==
    /\ Len(events) = accepted
    /\ (subscribers = {} => DOMAIN deliveries = {})

\* C14: an event whose notification refers to the transaction of an app user
\* with a subscriber row is stored against that subscriber.
C14_EventOwner ==
    \A i \in DOMAIN events :
       \A s \in SubscriberOf(events[i].payload.about) :
          events[i].subscriber_id = s.id

(* claims about the store adapters *)
\* The call has returned.
Returned == ret # NoCall

\* A token text decodes: three segments, the middle one base64url text of a
\* JSON text.
TokenDecodes(text) ==
    /\ Len(split(text)) = 3
    /\ Len(split(text)[2]) = 1
    /\ split(text)[2][1].k = "b64"
    /\ split(text)[2][1].bytes.json

\* The claims a token text that decodes carries.
ClaimsOf(text) == split(text)[2][1].bytes.value

\* The signedPayload of the body of an Apple notification decodes, to claims
\* that are an object.
OuterDecodes ==
    /\ call.op = "apple_process_notification"
    /\ call.input.json
    /\ call.input.value.obj
    /\ call.input.value.signedPayload.t = "str"
    /\ TokenDecodes(call.input.value.signedPayload.text)
    /\ ClaimsOf(call.input.value.signedPayload.text).obj

OuterClaims == ClaimsOf(call.input.value.signedPayload.text)
NestedToken == OuterClaims.data.signedTransactionInfo

\* The notification-code table of the Apple adapter.
AppleTable ==
    [DID_RENEW |-> "RENEWAL", EXPIRED |-> "EXPIRATION",
     DID_FAIL_TO_RENEW |-> "BILLING_ISSUE_DETECTED", REFUND |-> "REFUND",
     SUBSCRIBED |-> "INITIAL_PURCHASE", INITIAL_BUY |-> "INITIAL_PURCHASE",
     DID_CHANGE_RENEWAL_STATUS |-> "CANCELLATION"]

\* C15: an Apple notification whose signed payload and nested signed
\* transaction both decode yields exactly one event; its kind is the table's
\* entry for the notificationType, or the notificationType itself when the
\* table has none; its store_transaction_id is the nested transactionId.
C15_AppleEventKinds ==
    (/\ OuterDecodes
     /\ Returned
     /\ NestedToken.t = "str"
     /\ TokenDecodes(NestedToken.text))
    => /\ ret.ok
       /\ Len(ret.v) = 1
       /\ LET code == OuterClaims.notificationType
          IN code.t = "str" =>
                ret.v[1].event_type =
                   IF code.s \in DOMAIN AppleTable THEN AppleTable[code.s] ELSE code.s
       /\ LET id == Member(ClaimsOf(NestedToken.text), "transactionId")
          IN id.t = "str" => ret.v[1].transaction.store_transaction_id = id.s

\* A DID_CHANGE_RENEWAL_STATUS notification for transaction T2 came back as one
\* CANCELLATION event for T2.
C15_Witness ==
    /\ OuterDecodes
    /\ Returned
    /\ OuterClaims.notificationType.s = "DID_CHANGE_RENEWAL_STATUS"
    /\ NestedToken.t = "str"
    /\ TokenDecodes(NestedToken.text)
    /\ ret.ok
    /\ Len(ret.v) = 1
    /\ ret.v[1].event_type = "CANCELLATION"
    /\ ret.v[1].transaction.store_transaction_id = "T2"

\* The body of a Google notification is a JSON object.
GoogleNotification ==
    /\ call.op = "google_process_notification"
    /\ call.input.payload.json
    /\ call.input.payload.value.obj

NotificationOf == call.input.payload.value.subscriptionNotification

\* The follow-up verification of a Google call goes through: the token
\* exchange succeeds and the vendor answers 2xx with a JSON body.
VerificationSucceeds ==
    /\ call.input.auth.key
    /\ call.input.auth.pem
    /\ call.input.auth.sent
    /\ call.input.auth.token
    /\ call.input.response.sent
    /\ call.input.response.status \in 200..299
    /\ call.input.response.body.json

\* The notification-code table of the Google adapter.
GoogleTable ==
    (1 :> "SUBSCRIPTION_RECOVERED") @@ (2 :> "RENEWAL") @@ (3 :> "CANCELLATION") @@
    (4 :> "INITIAL_PURCHASE") @@ (5 :> "ACCOUNT_HOLD") @@ (6 :> "GRACE_PERIOD") @@
    (7 :> "RESTARTED") @@ (12 :> "REFUND") @@ (13 :> "EXPIRATION")

\* C16: a Google notification that carries a purchaseToken whose verification
\* succeeds yields one event; its kind is the table's entry for an integer
\* notificationType the table names, and UNKNOWN for any other integer and
\* for a notificationType that is missing or not an integer.
C16_GoogleEventKinds ==
    (/\ GoogleNotification
     /\ Returned
     /\ NotificationOf.purchaseToken.t = "str"
     /\ VerificationSucceeds)
    => /\ ret.ok
       /\ Len(ret.v) = 1
       /\ LET code == NotificationOf.notificationType
          IN ret.v[1].event_type =
                IF code.t = "int" /\ code.n \in DOMAIN GoogleTable
                THEN GoogleTable[code.n]
                ELSE "UNKNOWN"

\* A notification with code 12 came back as one REFUND event.
C16_Witness ==
    /\ GoogleNotification
    /\ Returned
    /\ NotificationOf.purchaseToken.t = "str"
    /\ VerificationSucceeds
    /\ NotificationOf.notificationType.t = "int"
    /\ NotificationOf.notificationType.n = 12
    /\ ret.ok
    /\ Len(ret.v) = 1
    /\ ret.v[1].event_type = "REFUND"

\* A transaction can be recovered from the nested token: it is a string of
\* three segments whose middle one decodes to a claims object.
TransactionRecoverable ==
    /\ NestedToken.t = "str"
    /\ TokenDecodes(NestedToken.text)
    /\ ClaimsOf(NestedToken.text).obj

CarriesPurchaseToken ==
    GoogleNotification /\ NotificationOf.purchaseToken.t = "str"

\* C18: GooglePlayAdapter::process_notification returns either exactly one
\* event, whose transaction is what a successful verify_purchase of the
\* notification's purchaseToken returns, or an error; it returns an error when
\* the purchaseToken is missing, the token exchange fails or the vendor
\* answers with a status that is not 2xx; it never returns the empty sequence.
C18_GoogleAllOrNothing ==
    (call.op = "google_process_notification" /\ Returned) =>
       IF ret.ok
       THEN /\ Len(ret.v) = 1
            /\ CarriesPurchaseToken
            /\ VerificationSucceeds
            /\ LET verified == google_verify_purchase(NotificationOf.purchaseToken.s,
                                                      call.input.auth, call.input.response)
               IN /\ verified.ok
                  /\ ret.v[1].transaction = verified.v
                  /\ ret.v[1].transaction.store_transaction_id =
                        NotificationOf.purchaseToken.s
       ELSE ~(CarriesPurchaseToken /\ VerificationSucceeds)

\* A notification with a purchaseToken failed as a whole because the vendor
\* answered the verification with a status that is not 2xx.
C18_Witness ==
    /\ CarriesPurchaseToken
    /\ Returned
    /\ call.input.auth.key /\ call.input.auth.pem
    /\ call.input.auth.sent /\ call.input.auth.token
    /\ call.input.response.sent
    /\ call.input.response.status = 500
    /\ ~ret.ok

\* The internal status of each vendor subscriptionState the adapter names.
GoogleStatusTable ==
    [SUBSCRIPTION_STATE_ACTIVE |-> "Active", SUBSCRIPTION_STATE_EXPIRED |-> "Expired",
     SUBSCRIPTION_STATE_GRACE_PERIOD |-> "GracePeriod",
     SUBSCRIPTION_STATE_ON_HOLD |-> "BillingRetry"]

\* C19: a transaction GooglePlayAdapter::verify_purchase returns has the
\* status the table gives for the vendor's subscriptionState, Active for any
\* other value and for a missing field, and never Refunded.
C19_GoogleStatus ==
    (call.op = "google_verify_purchase" /\ Returned /\ ret.ok) =>
       LET state == Member(call.input.response.body.value, "subscriptionState")
       IN /\ ret.v.status =
                IF state.t = "str" /\ state.s \in DOMAIN GoogleStatusTable
                THEN GoogleStatusTable[state.s]
                ELSE "Active"
          /\ ret.v.status # "Refunded"

\* A purchase whose vendor state is ON_HOLD was verified as BillingRetry.
C19_Witness ==
    /\ call.op = "google_verify_purchase"
    /\ Returned
    /\ ret.ok
    /\ call.input.response.body.value.obj
    /\ call.input.response.body.value.subscriptionState.s = "SUBSCRIPTION_STATE_ON_HOLD"
    /\ ret.v.status = "BillingRetry"

\* The signed token of the vendor's answer that AppleStoreAdapter::
\* verify_purchase goes on to decode, and the signed payload that
\* process_notification goes on to decode: the call got as far as the split.
ResponseTokens ==
    IF /\ call.op = "apple_verify_purchase"
       /\ call.input.jwt
       /\ call.input.response.sent
       /\ call.input.response.status \in 200..299
       /\ call.input.response.body.json
       /\ call.input.response.body.value.obj
       /\ call.input.response.body.value.signedTransactionInfo.t = "str"
    THEN {call.input.response.body.value.signedTransactionInfo.text}
    ELSE {}

OuterTokens ==
    IF /\ call.op = "apple_process_notification"
       /\ call.input.json
       /\ call.input.value.obj
       /\ call.input.value.signedPayload.t = "str"
    THEN {call.input.value.signedPayload.text}
    ELSE {}

\* The nested transaction token process_notification goes on to decode: the
\* outer token decoded, to claims whose data.signedTransactionInfo is a string.
NestedTokens ==
    IF /\ OuterTokens # {}
       /\ \A text \in OuterTokens :
             /\ TokenDecodes(text)
             /\ ClaimsOf(text).obj
             /\ ClaimsOf(text).data.signedTransactionInfo.t = "str"
    THEN {ClaimsOf(text).data.signedTransactionInfo.text : text \in OuterTokens}
    ELSE {}

\* A token is well-formed: three segments, the middle one base64url text of a
\* JSON object.
WellFormed(text) == TokenDecodes(text) /\ ClaimsOf(text).obj

VendorAnswered ==
    /\ call.op \in {"apple_verify_purchase", "google_verify_purchase"}
    /\ call.input.response.sent

\* An expected member of the vendor's answer is absent: transactionId or
\* productId of the claims of Apple's signed transaction, lineItems[0].productId
\* of Google's body.
ExpectedFieldAbsent ==
    \/ /\ call.op = "apple_verify_purchase"
       /\ \E text \in ResponseTokens :
             /\ TokenDecodes(text)
             /\ \/ Member(ClaimsOf(text), "transactionId").t # "str"
                \/ Member(ClaimsOf(text), "productId").t # "str"
    \/ /\ call.op = "google_verify_purchase"
       /\ call.input.response.body.json
       /\ \/ ~call.input.response.body.value.obj
          \/ Len(call.input.response.body.value.lineItems) = 0

\* C21: verify_purchase of either vendor returns an error when the vendor
\* answers with a status that is not 2xx, and when an expected member of the
\* answer is absent; no transaction is built from absent members.
C21_AbsentFieldFails ==
    (VendorAnswered /\ Returned) =>
       /\ call.input.response.status \notin 200..299 => ~ret.ok
       /\ ExpectedFieldAbsent => ~ret.ok

(* claims about the catalog sync *)
\* C22: no token is sent with two distinct outbound requests.
C22_FreshTokenPerRequest ==
    \A i, j \in DOMAIN outbound :
       i # j => outbound[i].token # outbound[j].token

\* The sync got as far as the subscriptions and the in-app purchases: every
\* request that is not for a sub-resource of a subscription was answered.
SyncReachesSubscriptions ==
    /\ call.op = "sync_products"
    /\ call.input.jwt
    /\ call.input.app.answers
    /\ Len(call.input.app.data) > 0
    /\ call.input.groups.answers
    /\ Len(call.input.groups.data) > 0
    /\ call.input.groups.data[1].answers
    /\ call.input.iaps.answers

SyncedSubscriptions == call.input.groups.data[1].data

LocalizationMissing(sub) ==
    ~sub.localizations.answers \/ Len(sub.localizations.data) = 0

PriceMissing(sub) ==
    \/ ~sub.prices.answers
    \/ Len(sub.prices.data) = 0
    \/ ~sub.prices.data[1].link
    \/ ~sub.prices.data[1].point.answers
    \/ /\ sub.prices.data[1].point.territory_link
       /\ ~sub.prices.data[1].point.territory.answers

OfferMissing(sub) == ~sub.offers.answers \/ Len(sub.offers.data) = 0

\* C23: when a localization, price or introductory-offer sub-resource of a
\* subscription is missing or fails, the sync still succeeds and returns that
\* subscription, with no description, price 0 in USD, or no trial period in
\* its place; what the catalog does hold for a subscription is returned,
\* whatever is missing for the others.
C23_SubResourceDefaults ==
    (SyncReachesSubscriptions /\ Returned) =>
       /\ ret.ok
       /\ Len(ret.v) = Len(SyncedSubscriptions) + Len(call.input.iaps.data)
       /\ \A i \in DOMAIN SyncedSubscriptions :
             LET sub == SyncedSubscriptions[i]
                 product == ret.v[i]
             IN /\ product.store_product_id = sub.productId.s
                /\ product.product_type = "subscription"
                /\ IF LocalizationMissing(sub)
                   THEN ~product.description.some
                   ELSE LET d == sub.localizations.data[1].description
                        IN IF d.t = "str"
                           THEN product.description.some /\ product.description.v = d.s
                           ELSE ~product.description.some
                /\ IF PriceMissing(sub)
                   THEN product.price_micros = 0 /\ product.currency = "USD"
                   ELSE /\ product.price_micros = 4990000
                        /\ product.currency =
                              IF sub.prices.data[1].point.territory_link
                              THEN sub.prices.data[1].point.territory.currency.s
                              ELSE "USD"
                /\ IF OfferMissing(sub)
                   THEN ~product.trial_period.some
                   ELSE product.trial_period.some /\ product.trial_period.v = "P1W"

\* A sync of two subscriptions returned: the prices request of the first
\* failed and its localizations are missing, the second has everything; the
\* first came back with the defaults, the second with its own values.
C23_Witness ==
    /\ SyncReachesSubscriptions
    /\ Returned
    /\ ret.ok
    /\ Len(SyncedSubscriptions) >= 2
    /\ ~SyncedSubscriptions[1].prices.answers
    /\ LocalizationMissing(SyncedSubscriptions[1])
    /\ OfferMissing(SyncedSubscriptions[1])
    /\ ret.v[1].price_micros = 0
    /\ ret.v[1].currency = "USD"
    /\ ~ret.v[1].description.some
    /\ ~ret.v[1].trial_period.some
    /\ ~PriceMissing(SyncedSubscriptions[2])
    /\ ret.v[2].price_micros = 4990000
    /\ ret.v[2].currency = "EUR"
    /\ ret.v[2].description.some
    /\ ret.v[2].trial_period.some

(* claims about receipts and the subscriber lookup *)

\* The receipt of request r is answered 201 and no other receipt for its app
\* user has arrived: no subscriber row of the user existed before it.
FirstReceipt(r) ==
    /\ inflight[r].pc = "done"
    /\ inflight[r].status = 201
    /\ \A q \in RequestIds \ {r} :
          inflight[q].pc = "idle" \/ inflight[q].app_user_id # inflight[r].app_user_id

SubscriberCreated(r) ==
    [id |-> r, app_id |-> inflight[r].app_id, app_user_id |-> inflight[r].app_user_id]

TransactionCreated(r) ==
    [id |-> r, subscriber_id |-> r, product_id |-> inflight[r].product_id,
     status |-> "active"]

LookupExpected(r) ==
    [status |-> 200,
     subscriber |-> SubscriberCreated(r),
     active_entitlements |->
         {e \in EntitlementIds : <<inflight[r].product_id, e>> \in product_entitlements},
     transactions |-> {TransactionCreated(r)}]

\* This step is a lookup of the app user u.
LookupStep(u) ==
    /\ UNCHANGED <<subscribers, transactions, inflight>>
    /\ call'.op = "get_subscriber"
    /\ call'.input = u

\* C24: a receipt for (A, U, P) submitted while U has no subscriber row
\* creates exactly one subscriber row, (A, U), and one transaction row,
\* active and for P; a lookup of U made after it answers with that
\* subscriber, that transaction and exactly the entitlements linked to P.
C24_ReceiptThenLookup ==
    [][\A r \in RequestIds :
          FirstReceipt(r) =>
             /\ {s \in subscribers : s.app_user_id = inflight[r].app_user_id}
                   = {SubscriberCreated(r)}
             /\ transactions_of(r) = {TransactionCreated(r)}
             /\ LookupStep(inflight[r].app_user_id) => ret' = LookupExpected(r)
      ]_<<vars, apiVars>>

\* A first receipt for a product with one entitlement has been looked up,
\* while a row of another app user exists.
C24_Witness ==
    \E r \in RequestIds :
       /\ FirstReceipt(r)
       /\ call.op = "get_subscriber"
       /\ call.input = inflight[r].app_user_id
       /\ ret.status = 200
       /\ ret.subscriber = SubscriberCreated(r)
       /\ TransactionCreated(r) \in ret.transactions
       /\ Cardinality(ret.active_entitlements) = 1
       /\ Cardinality(product_entitlements) = 2
       /\ Cardinality(subscribers) = 2

\* The transaction rows the call of request r has inserted.
CreatedBy(r) == {i \in DOMAIN transactions : transactions[i].id = r}

C25_FailedCycleGoesOn ==
    /\ [](pc = "sleep" => ENABLED SelectBatch)
    /\ [][lost' # lost =>
             /\ pc' = "sleep"
             /\ deliveries' = deliveries
             /\ \A b \in batch : Eligible(b.id, clock')]_vars

\* A row update has failed with a row of the batch not yet reached: the loop
\* sleeps and the row is pending, never POSTed and selectable.
C25_Witness ==
    /\ pc = "sleep"
    /\ \E id \in DOMAIN deliveries :
          /\ lost[id] > 0
          /\ \E other \in DOMAIN deliveries \ {id} :
                /\ deliveries[other] = NewDelivery(EndpointOf(other))
                /\ posts[other] = 0
                /\ other \in EligibleIds(clock)

\* Both workers have POSTed the same row for the same attempts value and
\* hold its outcome.
DoubleDispatch ==
    /\ cur.id # 0
    /\ worker2.cur.id = cur.id
    /\ worker2.cur.attempts = cur.attempts

\* A row that is delivered before the step is delivered after it.
DeliveredKept ==
    \A id \in DOMAIN deliveries :
       deliveries[id].status = "delivered" => deliveries'[id].status = "delivered"

\* C26, as claimed: with two workers polling the same store, a row one of
\* them has set to delivered is never overwritten to failed or dead_letter
\* by the other, and no row is dispatched by both for the same attempts value.
C26_TwoWorkersSafe ==
    /\ [][DeliveredKept]_<<vars, apiVars>>
    /\ [](~DoubleDispatch)

\* C26, amended: a delivered row is never overwritten while one worker runs
\* alone. With two workers the selection of neither takes a delivered row,
\* so a delivered row can be overwritten only by the worker that had
\* selected it before the delivery was written.
C26_NoSelectionOfDelivered ==
    [][/\ worker2.pc' = "off" => DeliveredKept
       /\ \A b \in (batch' \ batch) \cup (worker2.batch' \ worker2.batch) :
             deliveries[b.id].status \in {"pending", "failed"}
      ]_<<vars, apiVars>>

\* A row one worker has set to delivered is held, with a failed POST, by the
\* other worker, which selected it while it was pending and writes next.
C26_Witness ==
    \E id \in DOMAIN deliveries :
       /\ deliveries[id].status = "delivered"
       /\ worker2.pc = "write"
       /\ worker2.cur.id = id
       /\ worker2.cur.result # "2xx"
       /\ posts[id] = 2

(* claims about the status of Apple transactions *)

\* The transactions of what the Apple adapter returned.
AppleTransactionsReturned ==
    IF ~Returned \/ ~ret.ok THEN {}
    ELSE IF call.op = "apple_verify_purchase" THEN {ret.v}
    ELSE IF call.op = "apple_process_notification"
         THEN {ret.v[i].transaction : i \in DOMAIN ret.v}
    ELSE {}

\* C27: every transaction the Apple adapter returns, from verify_purchase or
\* in an event of process_notification, whatever the notification type, has
\* status Active and store Apple.
C27_AppleAlwaysActive ==
    \A t \in AppleTransactionsReturned :
       t.status = "Active" /\ t.store = "Apple"

\* An EXPIRED notification came back as an EXPIRATION event whose transaction
\* is Active.
C27_Witness ==
    /\ call.op = "apple_process_notification"
    /\ Returned
    /\ ret.ok
    /\ Len(ret.v) = 1
    /\ ret.v[1].event_type = "EXPIRATION"
    /\ ret.v[1].transaction.status = "Active"
    /\ ret.v[1].transaction.store = "Apple"

(* claims about the event listing *)

\* C29: the listing never holds more than 100 events, whatever limit is
\* (absent, zero, negative, above 100) and with or without since, and never
\* more than 50 when limit is absent.
C29_ListingCapped ==
    (call.op = "list_events" /\ Returned)
       => /\ Len(ret.events) <= 100
          /\ ~call.input.limit.some => Len(ret.events) <= 50

(* claims about the store credentials *)

\* The two stores hold the same row but for the private key.
DifferOnlyInPrivateKey ==
    /\ credentials[1].app = credentials[2].app
    /\ credentials[1].stored.some = credentials[2].stored.some
    /\ [credentials[1].stored.v.value EXCEPT !.apple.private_key = ""]
          = [credentials[2].stored.v.value EXCEPT !.apple.private_key = ""]

\* C30: on two stores that differ only in the private key of the app's
\* credentials, whatever update_credentials calls came before,
\* get_credentials answers with the same status and body, and a private key
\* in the body reads '***configured***'.
C30_KeyNeverDisclosed ==
    /\ DifferOnlyInPrivateKey
    /\ get_credentials(credentials[1]) = get_credentials(credentials[2])
    /\ (call.op = "get_credentials" /\ Returned) =>
          /\ ret.first = ret.second
          /\ ret.first.body.has_apple /\ ~ret.first.body.apple.null
                => ret.first.body.apple.private_key = "***configured***"

\* The stores hold different private keys and the credentials were asked
\* for: both answers carry the same object with the constant for the key.
C30_Witness ==
    /\ call.op = "get_credentials"
    /\ Returned
    /\ credentials[1].stored.some
    /\ credentials[1].stored.v.value.apple.private_key = "KEY-A"
    /\ credentials[2].stored.v.value.apple.private_key = "KEY-B"
    /\ ret.first = get_credentials(credentials[1])
    /\ ret.first = ret.second
    /\ ret.first.body.apple.key_id = "K1"
    /\ ret.first.body.apple.private_key = "***configured***"

====
